---- MODULE Spec2Model ----
(***************************************************************************)
(* FPL mini-league points: the server (src/server.js) and the two          *)
(* client-only variants (src/unnamed/part_000, src/unnamed/part_001).      *)
(*                                                                         *)
(* Strings that the code inspects character by character (squad names,     *)
(* manager names) are sequences of one-character strings; team names,      *)
(* which the code only uses as keys, are plain strings.                    *)
(***************************************************************************)
EXTENDS Integers, Sequences, FiniteSets, TLC

(***************************************************************************)
(* Bounds of the model.                                                    *)
(***************************************************************************)
\* longest standings list the upstream returns over all pages
MaxRows == 3
\* pages after which the model stops asking the upstream for more
MaxPages == 2
\* entry ids the upstream hands out are 1..MaxEntry
MaxEntry == 2
\* official points an upstream response carries are 0..MaxPts (and ScenarioPoints)
MaxPts == 2
\* teams with two matching standings rows in the ranking runs
MaxValid == 3
\* official points in the ranking runs are 0..MaxRankPts
MaxRankPts == 1
\* in the pool runs the one entry whose fetch fails or carries no numeric
\* points is the k-th troubled entry, k in 1..MaxTroubled (or there is none)
MaxTroubled == 2

(***************************************************************************)
(* JavaScript strings: UTF-16 code units, toLowerCase, trim, \s.           *)
(***************************************************************************)
UpperCase == <<"A","B","C","D","E","F","G","H","I","J","K","L","M",
               "N","O","P","Q","R","S","T","U","V","W","X","Y","Z">>
LowerCase == <<"a","b","c","d","e","f","g","h","i","j","k","l","m",
               "n","o","p","q","r","s","t","u","v","w","x","y","z">>

IndexIn(seq, c) == IF \E i \in 1..Len(seq) : seq[i] = c
                   THEN CHOOSE i \in 1..Len(seq) : seq[i] = c
                   ELSE 0

\* the UTF-16 code unit of a character of the model's alphabet
CodeUnit(c) ==
    IF IndexIn(UpperCase, c) > 0 THEN 64 + IndexIn(UpperCase, c)
    ELSE IF IndexIn(LowerCase, c) > 0 THEN 96 + IndexIn(LowerCase, c)
    ELSE IF c = " " THEN 32
    ELSE IF c = "'" THEN 39
    ELSE IF c = "-" THEN 45
    ELSE IF c = "." THEN 46
    ELSE IF c = ":" THEN 58
    ELSE IF c = "_" THEN 95
    ELSE 8211   \* the en dash, the one non-ASCII character of the alphabet

toLowerCaseChar(c) ==
    IF IndexIn(UpperCase, c) > 0 THEN LowerCase[IndexIn(UpperCase, c)] ELSE c

toLowerCase(s) == [i \in 1..Len(s) |-> toLowerCaseChar(s[i])]

IsSpace(c) == c = " "

RECURSIVE trimStart(_)
trimStart(s) == IF s # <<>> /\ IsSpace(Head(s)) THEN trimStart(Tail(s)) ELSE s

RECURSIVE trimEnd(_)
trimEnd(s) == IF s # <<>> /\ IsSpace(s[Len(s)])
              THEN trimEnd(SubSeq(s, 1, Len(s) - 1)) ELSE s

trim(s) == trimEnd(trimStart(s))

\* a < b for JavaScript strings: lexicographic on code units
RECURSIVE StrLess(_, _)
StrLess(a, b) ==
    IF b = <<>> THEN FALSE
    ELSE IF a = <<>> THEN TRUE
    ELSE IF CodeUnit(Head(a)) # CodeUnit(Head(b))
         THEN CodeUnit(Head(a)) < CodeUnit(Head(b))
         ELSE StrLess(Tail(a), Tail(b))

StrLessEq(a, b) == a = b \/ StrLess(a, b)

(***************************************************************************)
(* Configuration (src/server.js:33-66): the first six teams of the map,    *)
(* in the map's order, which is the order Object.entries walks it in.      *)
(***************************************************************************)
ABBREVIATIONS ==
    << [teamName |-> "Banter Bros",             prefix |-> <<"B","A","B">>],
       [teamName |-> "Bianconeri Blues",        prefix |-> <<"B","I","B">>],
       [teamName |-> "Dark Knights",            prefix |-> <<"D","K">>],
       [teamName |-> "Despicable Memelennials", prefix |-> <<"D","M">>],
       [teamName |-> "Footballing Gods",        prefix |-> <<"F","G">>],
       [teamName |-> "Highbury Citizens",       prefix |-> <<"H","C">>] >>

TeamNames == {ABBREVIATIONS[i].teamName : i \in 1..Len(ABBREVIATIONS)}

\* width of the points worker pool
concurrency == 10

(***************************************************************************)
(* hasPrefix: /^\s*PREFIX(?:\s*[-:]\s*|\s+)/i, the class also holding the *)
(* en dash and the em dash, tested on the trimmed name.                    *)
(***************************************************************************)
\* "ndash" stands for the en dash (U+2013)
IsSeparator(c) == c \in {"-", "ndash", ":"}

\* s, from position p on, matches (?:\s*[-:]\s*|\s+)
SeparatorAt(s, p) ==
    \/ p <= Len(s) /\ IsSpace(s[p])
    \/ \E q \in p..Len(s) :
          /\ IsSeparator(s[q])
          /\ \A k \in p..(q - 1) : IsSpace(s[k])

hasPrefix(entryName, pref) ==
    LET s == trim(entryName)
        p == trim(pref)
        n == Len(p)
    IN /\ Len(s) >= n
       /\ toLowerCase(SubSeq(s, 1, n)) = toLowerCase(p)
       /\ SeparatorAt(s, n + 1)

(***************************************************************************)
(* buildPairs (after its await of getStandings): one entry per team.       *)
(***************************************************************************)
RECURSIVE filter(_, _)
filter(rows, pref) ==
    IF rows = <<>> THEN <<>>
    ELSE IF hasPrefix(Head(rows).entry_name, pref)
         THEN <<Head(rows)>> \o filter(Tail(rows), pref)
         ELSE filter(Tail(rows), pref)

Member(m) == [entryId |-> m.entry, entryName |-> m.entry_name,
              managerName |-> m.player_name]

\* mutant: only a team without any match is flagged
pairForAnyMatch(team, rows) ==
    LET matches == filter(rows, team.prefix)
    IN IF Len(matches) = 0
       THEN [name |-> team.teamName, members |-> <<>>,
             error |-> TRUE, found |-> Len(matches)]
       ELSE [name |-> team.teamName,
             members |-> [i \in 1..Len(matches) |-> Member(matches[i])],
             error |-> FALSE, found |-> Len(matches)]

\* error: whether the entry carries an error message; found: the count in it
pairFor(team, rows) ==
    LET matches == filter(rows, team.prefix)
    IN IF Len(matches) # 2
       THEN [name |-> team.teamName, members |-> <<>>,
             error |-> TRUE, found |-> Len(matches)]
       ELSE [name |-> team.teamName,
             members |-> [i \in 1..2 |-> Member(matches[i])],
             error |-> FALSE, found |-> 2]

buildPairs(rows) == [t \in 1..Len(ABBREVIATIONS) |-> pairFor(ABBREVIATIONS[t], rows)]

(***************************************************************************)
(* State.                                                                  *)
(***************************************************************************)
VARIABLES
    standingsCache,   \* server global: [isNull, val]
    pairsCache,       \* server global: [isNull, val]
    captainsFile,     \* captains.json, its byGw object: gw key -> (team -> id)
    upstream,         \* entry id -> the responses its picks fetch may get
    pc,               \* where the GET /api/gw request stands
    page,             \* fetchAllStandings: page
    acc,              \* fetchAllStandings: results
    gw,               \* computeScoresForGw: gw
    pairs,            \* computeScoresForGw: pairs
    captains,         \* computeScoresForGw: captains (as loaded)
    allEntries,       \* computeScoresForGw: allEntries
    idx,              \* computeScoresForGw: idx (0-based)
    worker,           \* computeScoresForGw: each worker's position
    entryPoints,      \* computeScoresForGw: entryPoints
    responses,        \* history: what the fetch of each queue position got
    results,          \* the response's results
    now,              \* server: Date.now(), in milliseconds since the start
    standingsCacheTimestamp, \* server global
    calledAt,         \* getStandings: now, as read before the fetch
    request,          \* the request handleRequest is serving, or served last
    response,         \* what handleRequest has sent for it
    captainLog,       \* history: the /api/captains requests served, in order
    posts,            \* server: the POST /api/captains handlers in flight
    calls,            \* server: the getPairs calls in flight
    microtasks,       \* server: the continuations ready to run, first in first out
    leagueRows,       \* client: the league's rows as the standings list them
    staticCaptains,   \* client: /captains.json, its byGw object
    localCaptains,    \* client: localStorage[CAP_KEY]
    currentGw,        \* client: the gameweek entered
    shown,            \* client: which variant's loadResults has rendered
    displayed,        \* client: the result rows, in the order rendered
    unresolved,       \* client: the teams reported as not resolved
    chosen            \* client: the captains the last submit of the form collected

vars == <<standingsCache, pairsCache, captainsFile, upstream, pc, page, acc, gw,
          pairs, captains, allEntries, idx, worker, entryPoints, responses,
          results, now, standingsCacheTimestamp, calledAt, request, response,
          captainLog, posts, calls, microtasks, leagueRows, staticCaptains,
          localCaptains, currentGw, shown, displayed, unresolved, chosen>>

clientVars == <<leagueRows, staticCaptains, localCaptains, currentGw, shown,
                displayed, unresolved, chosen>>
serverVars == <<standingsCache, pairsCache, captainsFile, upstream, pc, page, acc,
                gw, pairs, captains, allEntries, idx, worker, entryPoints,
                responses, results, now, standingsCacheTimestamp, calledAt,
                request, response, captainLog, posts, calls, microtasks>>

inflightVars == <<posts, calls, microtasks>>

apiVars == <<now, standingsCacheTimestamp, calledAt, request, response, captainLog>>

serverGlobals == <<standingsCache, pairsCache, captainsFile, upstream>>
standingsLocals == <<page, acc>>
scoreLocals == <<gw, pairs, captains, allEntries, idx, worker, entryPoints,
                 responses, results>>

Null == [isNull |-> TRUE, val |-> <<>>]

\* a JSON object without keys: { byGw: {} }, {}
EmptyDoc == [k \in {} |-> <<>>]
NoCaptains == [t \in {} |-> 0]

\* the page as loaded, nothing fetched or rendered yet
ClientIdle(rows, static, local, g) ==
    /\ leagueRows = rows
    /\ staticCaptains = static
    /\ localCaptains = local
    /\ currentGw = g
    /\ shown = "none"
    /\ displayed = <<>>
    /\ unresolved = <<>>
    /\ chosen = NoCaptains

\* a request body as parseJsonBody finds it: kind is "empty" (no data),
\* "object" (the text of a JSON object, val), "null" (the text null) or
\* "malformed" (not JSON)
NoBody == [kind |-> "empty", val |-> NoCaptains]

NoResponse == [status |-> 0, error |-> "", json |-> <<>>]

Request(method, route, key, body) ==
    [method |-> method, route |-> route, key |-> key, body |-> body]

\* the clock at 0, nothing cached at any time, no captains request served
\* a handler that has not been entered
NoPost == [st |-> "none", key |-> "", body |-> NoBody, captains |-> EmptyDoc, ok |-> FALSE]

NoCall == [st |-> "none", now |-> 0, standings |-> <<>>, pairs |-> <<>>]

Handlers == 1..2

ApiQuiet(req) ==
    /\ posts = [h \in Handlers |-> NoPost]
    /\ calls = [c \in Handlers |-> NoCall]
    /\ microtasks = <<>>
    /\ now = 0
    /\ standingsCacheTimestamp = 0
    /\ calledAt = 0
    /\ request = req
    /\ response = NoResponse
    /\ captainLog = <<>>

Some(v) == [isNull |-> FALSE, val |-> v]

\* mutant: one worker per queued entry
WorkersPerEntry == 1..(2 * Len(ABBREVIATIONS))

Workers == 1..concurrency

NoEntries == <<>>
IdleWorkers == [w \in Workers |-> [st |-> "idle", current |-> 0]]

(***************************************************************************)
(* The upstream's standings rows and picks responses.                      *)
(***************************************************************************)
\* the manager's display name, a passthrough for the server
PlayerName(e) == [i \in 1..e |-> "x"]

Row(e, name) == [entry |-> e, entry_name |-> name, player_name |-> PlayerName(e)]

PairNames == { <<"D","K","-","a">>, <<"d","k"," ","B">>, <<"D","K","x">>,
               <<"D","M"," ","ndash"," ","b">> }

PairRows == { Row(e, n) : e \in 1..MaxEntry, n \in PairNames }

\* pages of at most two rows; one page lists an entry once
Pages == {<<>>} \cup { <<r>> : r \in PairRows }
                \cup { rr \in PairRows \X PairRows : rr[1].entry # rr[2].entry }

(***************************************************************************)
(* fetchAllStandings, getStandings, buildPairs, getPairs                   *)
(***************************************************************************)
\* getStandings after its await, then buildPairs and getPairs after theirs
StandingsReturned(rows) ==
    /\ standingsCache' = Some(rows)
    /\ standingsCacheTimestamp' = calledAt
    /\ pairsCache' = Null
    /\ pc' = "buildPairs"
    /\ acc' = rows

\* one turn of the loop of fetchAllStandings: the page arrives
FetchStandingsPage ==
    /\ pc = "standings"
    /\ \/ \* fetchStandingsPage throws: the response was not ok
          /\ pc' = "failed"
          /\ response' = [status |-> 500, error |-> "Error fetching standings page",
                          json |-> <<>>]
          /\ UNCHANGED <<standingsCache, standingsCacheTimestamp, pairsCache, acc, page>>
       \/ \* the body holds no standings.results
          /\ StandingsReturned(acc)
          /\ UNCHANGED <<page, response>>
       \/ \E rows \in Pages, has_next \in BOOLEAN :
             /\ Len(acc) + Len(rows) <= MaxRows
             /\ has_next => page < MaxPages
             /\ IF has_next
                THEN /\ acc' = acc \o rows
                     /\ page' = page + 1
                     /\ UNCHANGED <<standingsCache, standingsCacheTimestamp,
                                    pairsCache, pc, response>>
                ELSE /\ StandingsReturned(acc \o rows)
                     /\ UNCHANGED <<page, response>>
    /\ UNCHANGED <<captainsFile, upstream, now, calledAt, request, captainLog>>
    /\ UNCHANGED scoreLocals
    /\ UNCHANGED clientVars
    /\ UNCHANGED inflightVars

\* buildPairs resumes with the standings; getPairs stores what it returns
BuildPairs ==
    /\ pc = "buildPairs"
    /\ pairsCache' = Some(buildPairs(acc))
    /\ pc' = "loaded"
    /\ UNCHANGED <<standingsCache, captainsFile, upstream>>
    /\ UNCHANGED standingsLocals
    /\ UNCHANGED clientVars
    /\ UNCHANGED inflightVars
    /\ UNCHANGED scoreLocals
    /\ UNCHANGED apiVars

(***************************************************************************)
(* fetchOfficialPoints and the worker pool of computeScoresForGw           *)
(***************************************************************************)
\* what the picks fetch of one entry can come to:
\*   reject  - fetch() rejects;         status - the response is not ok;
\*   nonnum  - ok, entry_history.points is missing or not a number;
\*   points  - ok, entry_history.points = pts
Pending == [kind |-> "pending", pts |-> 0]
Reject == [kind |-> "reject", pts |-> 0]
BadStatus == [kind |-> "status", pts |-> 0]
NonNumeric == [kind |-> "nonnum", pts |-> 0]
Points(n) == [kind |-> "points", pts |-> n]

fetchOfficialPoints(o) ==
    [threw |-> o.kind \in {"reject", "status"},
     value |-> IF o.kind = "points" THEN o.pts ELSE 0]

\* the try/catch of worker(): what is stored for the entry
workerPoints(o) ==
    IF fetchOfficialPoints(o).threw THEN 0 ELSE fetchOfficialPoints(o).value

RECURSIVE flatten(_)
flatten(ps) ==
    IF ps = <<>> THEN <<>>
    ELSE IF Len(Head(ps).members) # 2 THEN flatten(Tail(ps))
    ELSE <<Head(ps).members[1].entryId, Head(ps).members[2].entryId>>
         \o flatten(Tail(ps))

\* loadCaptains: the file's document
loadCaptains(file) == file

Min(a, b) == IF a < b THEN a ELSE b

\* GET /api/gw/:gw from the pairs on: loadCaptains, then computeScoresForGw up
\* to its await: the queue is built and each worker runs to its first fetch
ComputeStart ==
    /\ pc = "loaded"
    /\ request.route = "gw"
    /\ ~pairsCache.isNull
    /\ LET ps == pairsCache.val
           queue == flatten(ps)
           n == Len(queue)
       IN /\ pairs' = ps
          /\ captains' = loadCaptains(captainsFile)
          /\ allEntries' = queue
          /\ entryPoints' = [e \in {} |-> 0]
          /\ responses' = [i \in 1..n |-> Pending]
          /\ idx' = Min(n, concurrency)
          /\ worker' = [w \in Workers |->
                           IF w <= n THEN [st |-> "fetching", current |-> w - 1]
                                     ELSE [st |-> "done", current |-> 0]]
    /\ pc' = "pool"
    /\ results' = <<>>
    /\ UNCHANGED gw
    /\ UNCHANGED serverGlobals
    /\ UNCHANGED standingsLocals
    /\ UNCHANGED clientVars
    /\ UNCHANGED inflightVars
    /\ UNCHANGED apiVars

\* mutant: the try/catch around the loop, a failed fetch ends the worker
WorkerResumeStopsOnFailure(w) ==
    /\ pc = "pool"
    /\ worker[w].st = "fetching"
    /\ LET current == worker[w].current
           entryId == allEntries[current + 1]
       IN \E o \in upstream[entryId] :
             /\ entryPoints' = [e \in DOMAIN entryPoints \cup {entryId} |->
                                   IF e = entryId THEN workerPoints(o)
                                                  ELSE entryPoints[e]]
             /\ responses' = [responses EXCEPT ![current + 1] = o]
             /\ IF idx < Len(allEntries) /\ ~fetchOfficialPoints(o).threw
                THEN /\ worker' = [worker EXCEPT ![w] = [st |-> "fetching", current |-> idx]]
                     /\ idx' = idx + 1
                ELSE /\ worker' = [worker EXCEPT ![w] = [st |-> "done", current |-> 0]]
                     /\ UNCHANGED idx
    /\ UNCHANGED <<pc, gw, pairs, captains, allEntries, results>>
    /\ UNCHANGED serverGlobals
    /\ UNCHANGED standingsLocals
    /\ UNCHANGED clientVars
    /\ UNCHANGED inflightVars
    /\ UNCHANGED apiVars

\* mutant: the index moves on by two, a queue position is passed over
WorkerResumeSkipsOne(w) ==
    /\ pc = "pool"
    /\ worker[w].st = "fetching"
    /\ LET current == worker[w].current
           entryId == allEntries[current + 1]
       IN \E o \in upstream[entryId] :
             /\ entryPoints' = [e \in DOMAIN entryPoints \cup {entryId} |->
                                   IF e = entryId THEN workerPoints(o)
                                                  ELSE entryPoints[e]]
             /\ responses' = [responses EXCEPT ![current + 1] = o]
    /\ IF idx + 1 < Len(allEntries)
       THEN /\ worker' = [worker EXCEPT ![w] = [st |-> "fetching", current |-> idx + 1]]
            /\ idx' = idx + 2
       ELSE /\ worker' = [worker EXCEPT ![w] = [st |-> "done", current |-> 0]]
            /\ idx' = Len(allEntries)
    /\ UNCHANGED <<pc, gw, pairs, captains, allEntries, results>>
    /\ UNCHANGED serverGlobals
    /\ UNCHANGED standingsLocals
    /\ UNCHANGED clientVars
    /\ UNCHANGED inflightVars
    /\ UNCHANGED apiVars

\* a worker's fetch settles: it stores the points and takes the next index
WorkerResume(w) ==
    /\ pc = "pool"
    /\ worker[w].st = "fetching"
    /\ LET current == worker[w].current
           entryId == allEntries[current + 1]
       IN \E o \in upstream[entryId] :
             /\ entryPoints' = [e \in DOMAIN entryPoints \cup {entryId} |->
                                   IF e = entryId THEN workerPoints(o)
                                                  ELSE entryPoints[e]]
             /\ responses' = [responses EXCEPT ![current + 1] = o]
    /\ IF idx < Len(allEntries)
       THEN /\ worker' = [worker EXCEPT ![w] = [st |-> "fetching", current |-> idx]]
            /\ idx' = idx + 1
       ELSE /\ worker' = [worker EXCEPT ![w] = [st |-> "done", current |-> 0]]
            /\ UNCHANGED idx
    /\ UNCHANGED <<pc, gw, pairs, captains, allEntries, results>>
    /\ UNCHANGED serverGlobals
    /\ UNCHANGED standingsLocals
    /\ UNCHANGED clientVars
    /\ UNCHANGED inflightVars
    /\ UNCHANGED apiVars

(***************************************************************************)
(* computeScoresForGw: the results                                         *)
(***************************************************************************)
\* entryPoints[id] || 0
pointsOf(ep, id) == IF id \in DOMAIN ep THEN ep[id] ELSE 0

\* captains.byGw?.[gw] || {}
captainsForGw(caps, g) == IF g \in DOMAIN caps THEN caps[g] ELSE [t \in {} |-> 0]

\* mutant: the membership test dropped, only !captainEntryId kept
needsAutoFalsyOnly(forGw, name, m1, m2) ==
    \/ name \notin DOMAIN forGw
    \/ forGw[name] = 0

\* !captainEntryId || (captainEntryId !== m1.entryId && captainEntryId !== m2.entryId)
\* (a stored 0 stands for every falsy stored value)
needsAuto(forGw, name, m1, m2) ==
    \/ name \notin DOMAIN forGw
    \/ forGw[name] = 0
    \/ forGw[name] # m1.entryId /\ forGw[name] # m2.entryId

\* mutant: the names compared as they are, without toLowerCase
tieBreakCaseSensitive(m1, m2) ==
    IF StrLessEq(m1.entryName, m2.entryName) THEN m1.entryId ELSE m2.entryId

\* the tie: the lexicographically smaller squad name, case insensitive
tieBreak(m1, m2) ==
    IF StrLessEq(toLowerCase(m1.entryName), toLowerCase(m2.entryName))
    THEN m1.entryId ELSE m2.entryId

\* mutant: the comparisons turned round, the higher scorer chosen
autoCaptainHighest(m1, m2, pts1, pts2) ==
    IF pts1 > pts2 THEN m1.entryId
    ELSE IF pts2 > pts1 THEN m2.entryId
    ELSE tieBreak(m1, m2)

autoCaptain(m1, m2, pts1, pts2) ==
    IF pts1 < pts2 THEN m1.entryId
    ELSE IF pts2 < pts1 THEN m2.entryId
    ELSE tieBreak(m1, m2)

captainPointsOf(captainEntryId, m1, pts1, pts2) ==
    IF captainEntryId = m1.entryId THEN pts1 ELSE pts2

\* mutant: the captain's points not added again
teamPointsUndoubled(pts1, pts2, captainPoints) == pts1 + pts2

teamPointsOf(pts1, pts2, captainPoints) == pts1 + pts2 + captainPoints

scored(p, ep, forGw) ==
    LET m1 == p.members[1]
        m2 == p.members[2]
        pts1 == pointsOf(ep, m1.entryId)
        pts2 == pointsOf(ep, m2.entryId)
        autoLowest == needsAuto(forGw, p.name, m1, m2)
        captainEntryId == IF autoLowest THEN autoCaptain(m1, m2, pts1, pts2)
                                        ELSE forGw[p.name]
        captainPoints == captainPointsOf(captainEntryId, m1, pts1, pts2)
    IN [teamName |-> p.name,
        members |-> << [entryId |-> m1.entryId, squadName |-> m1.entryName,
                        manager |-> m1.managerName, points |-> pts1],
                       [entryId |-> m2.entryId, squadName |-> m2.entryName,
                        manager |-> m2.managerName, points |-> pts2] >>,
        captainEntryId |-> captainEntryId,
        captainPoints |-> captainPoints,
        autoLowest |-> autoLowest,
        teamPoints |-> teamPointsOf(pts1, pts2, captainPoints)]

\* an error entry has no teamPoints
resultFor(p, ep, forGw) ==
    IF Len(p.members) # 2 THEN [name |-> p.name, error |-> TRUE]
                          ELSE scored(p, ep, forGw)

RECURSIVE validOnly(_)
validOnly(ps) ==
    IF ps = <<>> THEN <<>>
    ELSE IF Len(Head(ps).members) # 2 THEN validOnly(Tail(ps))
    ELSE <<Head(ps)>> \o validOnly(Tail(ps))

\* mutant: a team without two members is skipped, no error entry pushed
unsortedResultsValidOnly(ps, ep, forGw) ==
    [i \in 1..Len(validOnly(ps)) |-> resultFor(validOnly(ps)[i], ep, forGw)]

unsortedResults(ps, ep, forGw) == [i \in 1..Len(ps) |-> resultFor(ps[i], ep, forGw)]

(***************************************************************************)
(* results.sort((a, b) => b.teamPoints - a.teamPoints)                     *)
(*                                                                         *)
(* With an error entry on either side the comparator yields NaN, which the *)
(* sort reads as 0.  Such a comparator is not consistent, so the order is  *)
(* the engine's: Node's (V8's) Array.prototype.sort, which below 64        *)
(* elements finds the leading run and inserts the rest by binary search.   *)
(***************************************************************************)
hasTeamPoints(r) == "teamPoints" \in DOMAIN r

\* the server's comparator, its value as the sort uses it (NaN read as 0)
byTeamPoints(a, b) ==
    IF hasTeamPoints(a) /\ hasTeamPoints(b) THEN b.teamPoints - a.teamPoints ELSE 0

\* String.prototype.localeCompare on names of letters and spaces: the
\* collation orders them by their letters, a space before any letter
localeCompare(a, b) ==
    IF toLowerCase(a) = toLowerCase(b)
    THEN IF a = b THEN 0 ELSE IF StrLess(b, a) THEN -1 ELSE 1
    ELSE IF StrLess(toLowerCase(a), toLowerCase(b)) THEN -1 ELSE 1

\* part_000's comparator: points descending, then the team's name
byTeamPointsThenName(a, b) ==
    IF b.teamPoints # a.teamPoints THEN b.teamPoints - a.teamPoints
    ELSE localeCompare(a.teamChars, b.teamChars)

\* the comparator a sort was called with
comparefn(by, a, b) ==
    IF by = "teamPoints" THEN byTeamPoints(a, b) ELSE byTeamPointsThenName(a, b)

\* the length of the run that starts the array, i elements of it known
RECURSIVE runLength(_, _, _, _)
runLength(by, arr, isDescending, i) ==
    IF i >= Len(arr) THEN i
    ELSE LET order == comparefn(by, arr[i + 1], arr[i])
         IN IF isDescending
            THEN IF order >= 0 THEN i ELSE runLength(by, arr, isDescending, i + 1)
            ELSE IF order < 0 THEN i ELSE runLength(by, arr, isDescending, i + 1)

reverseRange(arr, n) ==
    [i \in 1..Len(arr) |-> IF i <= n THEN arr[n + 1 - i] ELSE arr[i]]

\* where the pivot goes among arr[left+1..right] (0-based left, right)
RECURSIVE insertionPoint(_, _, _, _, _)
insertionPoint(by, arr, pivot, left, right) ==
    IF left >= right THEN left
    ELSE LET mid == left + ((right - left) \div 2)
         IN IF comparefn(by, pivot, arr[mid + 1]) < 0
            THEN insertionPoint(by, arr, pivot, left, mid)
            ELSE insertionPoint(by, arr, pivot, mid + 1, right)

\* arr[1..start] is taken as sorted; insert arr[start+1..]
RECURSIVE binaryInsertionSort(_, _, _)
binaryInsertionSort(by, arr, start) ==
    IF start >= Len(arr) THEN arr
    ELSE LET pivot == arr[start + 1]
             left == insertionPoint(by, arr, pivot, 0, start)
             moved == [i \in 1..Len(arr) |->
                          IF i <= left THEN arr[i]
                          ELSE IF i = left + 1 THEN pivot
                          ELSE IF i <= start + 1 THEN arr[i - 1]
                          ELSE arr[i]]
         IN binaryInsertionSort(by, moved, start + 1)

sort(arr, by) ==
    IF Len(arr) < 2 THEN arr
    ELSE LET isDescending == comparefn(by, arr[2], arr[1]) < 0
             run == runLength(by, arr, isDescending, 2)
             made == IF isDescending THEN reverseRange(arr, run) ELSE arr
         IN binaryInsertionSort(by, made, run)

computeScoresForGw(g, ps, caps, ep) ==
    sort(unsortedResults(ps, ep, captainsForGw(caps, g)), "teamPoints")

\* Promise.all(workers) resolves: the results are built, sorted and sent
BuildResults ==
    /\ pc = "pool"
    /\ \A w \in Workers : worker[w].st = "done"
    /\ results' = computeScoresForGw(gw, pairs, captains, entryPoints)
    /\ response' = [status |-> 200, error |-> "", json |-> results']
    /\ pc' = "done"
    /\ UNCHANGED <<gw, pairs, captains, allEntries, idx, worker, entryPoints,
                   responses>>
    /\ UNCHANGED <<now, standingsCacheTimestamp, calledAt, request, captainLog>>
    /\ UNCHANGED serverGlobals
    /\ UNCHANGED standingsLocals
    /\ UNCHANGED clientVars
    /\ UNCHANGED inflightVars

NextScore == ComputeStart \/ (\E w \in Workers : WorkerResume(w)) \/ BuildResults

\* the state a request is in once getPairs has returned for these standings
Loaded(rows, file, up, g) ==
    /\ standingsCache = Some(rows)
    /\ pairsCache = Some(buildPairs(rows))
    /\ captainsFile = file
    /\ upstream = up
    /\ pc = "loaded"
    /\ page = 1
    /\ acc = rows
    /\ gw = g
    /\ pairs = <<>>
    /\ captains = [k \in {} |-> <<>>]
    /\ allEntries = NoEntries
    /\ idx = 0
    /\ worker = IdleWorkers
    /\ entryPoints = [e \in {} |-> 0]
    /\ responses = <<>>
    /\ results = <<>>
    /\ ApiQuiet(Request("GET", "gw", g, NoBody))
    /\ ClientIdle(<<>>, EmptyDoc, EmptyDoc, "1")

(***************************************************************************)
(* Inputs of the scoring runs.                                             *)
(***************************************************************************)
GwKeys == {"1", "2"}

\* one team, Dark Knights, with two standings rows; every stored captain
CaptainNames == { <<"D","K","-","a">>, <<"D","K","-","B">>, <<"d","k","-","b">> }

ScenarioPoints == {45, 60}

CaptainOutcomes ==
    {Reject, BadStatus, NonNumeric} \cup {Points(n) : n \in (0..MaxPts) \cup ScenarioPoints}

\* a stored 0 stands for every falsy stored value
CaptainMaps ==
    {NoCaptains} \cup {[t \in {"Dark Knights"} |-> c] : c \in 0..(MaxEntry + 1)}

InitCaptain ==
    \E e1 \in 1..MaxEntry, e2 \in 1..MaxEntry, n1 \in CaptainNames, n2 \in CaptainNames,
       forGw \in CaptainMaps, g \in GwKeys :
        Loaded(<<Row(e1, n1), Row(e2, n2)>>,
               [k \in {"1"} |-> forGw],
               [e \in 1..MaxEntry |-> CaptainOutcomes],
               g)

SpecCaptain == InitCaptain /\ [][NextScore]_vars

\* the ranking runs: up to MaxValid of the teams have their two rows, a team
\* without them has one row (odd teams) or none (even teams)
RankName(t, c) == ABBREVIATIONS[t].prefix \o <<"-", c>>

RankRowsOf(t, valid) ==
    IF t \in valid THEN <<Row(2 * t - 1, RankName(t, "a")), Row(2 * t, RankName(t, "b"))>>
    ELSE IF t % 2 = 1 THEN <<Row(2 * t - 1, RankName(t, "a"))>>
    ELSE <<>>

RECURSIVE RankRows(_, _)
RankRows(t, valid) ==
    IF t > Len(ABBREVIATIONS) THEN <<>>
    ELSE RankRowsOf(t, valid) \o RankRows(t + 1, valid)

AllEntryIds == 1..(2 * Len(ABBREVIATIONS))

InitRank ==
    \E valid \in SUBSET (1..Len(ABBREVIATIONS)) :
        /\ Cardinality(valid) <= MaxValid
        /\ Loaded(RankRows(1, valid),
                  EmptyDoc,
                  [e \in AllEntryIds |-> {Points(n) : n \in 0..MaxRankPts}],
                  "1")

SpecRank == InitRank /\ [][NextScore]_vars

\* the pool runs: every team has its two rows, so the queue is longer than
\* the pool is wide, or one team has, so it is shorter; the upstream fails for
\* at most one entry
AllTeams == 1..Len(ABBREVIATIONS)

\* the troubled entries alternate between the queue's two ends: 1, 12, 2, 11, ..
TroubledEntry(k) ==
    IF k = 0 THEN 0
    ELSE IF k % 2 = 1 THEN (k + 1) \div 2
    ELSE 2 * Len(ABBREVIATIONS) + 1 - (k \div 2)

PoolUpstream(troubled) ==
    [e \in AllEntryIds |->
        IF e = troubled THEN {Reject, BadStatus, NonNumeric}
        ELSE {Points(1 + (e % 2))}]

\* every team has its rows, or the first team only
PoolTeams == {AllTeams, {1}}

InitPool ==
    \E k \in 0..MaxTroubled, valid \in PoolTeams :
        Loaded(RankRows(1, valid), EmptyDoc, PoolUpstream(TroubledEntry(k)), "1")

SpecPool == InitPool /\ [][NextScore]_vars

\* the server as started: nothing cached, no request in progress
ServerIdle ==
    /\ standingsCache = Null
    /\ pairsCache = Null
    /\ captainsFile = [k \in {} |-> <<>>]
    /\ upstream = [e \in {} |-> {}]
    /\ pc = "standings"
    /\ page = 1
    /\ acc = <<>>
    /\ gw = "1"
    /\ pairs = <<>>
    /\ captains = [k \in {} |-> <<>>]
    /\ allEntries = NoEntries
    /\ idx = 0
    /\ worker = IdleWorkers
    /\ entryPoints = [e \in {} |-> 0]
    /\ responses = <<>>
    /\ results = <<>>
    /\ ApiQuiet(Request("GET", "pairs", "", NoBody))

InitPairs == ServerIdle /\ ClientIdle(<<>>, EmptyDoc, EmptyDoc, "1")

NextPairs == FetchStandingsPage \/ BuildPairs

SpecPairs == InitPairs /\ [][NextPairs]_vars

(***************************************************************************)
(* handleRequest: GET /api/gw/:gw and GET /api/pairs, with the clock that  *)
(* getStandings reads.                                                     *)
(***************************************************************************)
STANDINGS_CACHE_TTL == 6 * 60 * 60 * 1000

\* the clock moves in steps of half the time to live, MaxTicks times
MaxTicks == 3
ClockStep == STANDINGS_CACHE_TTL \div 2

Digits == <<"0","1","2","3","4","5","6","7","8","9">>

IsDigit(c) == IndexIn(Digits, c) > 0

\* the value of the longest prefix of digits, acc being the value so far
RECURSIVE digitsValue(_, _)
digitsValue(str, acc0) ==
    IF str = <<>> \/ ~IsDigit(Head(str)) THEN acc0
    ELSE digitsValue(Tail(str), 10 * acc0 + (IndexIn(Digits, Head(str)) - 1))

\* parseInt(str, 10): white space skipped, a sign, then the digits that
\* follow; NaN when no digit follows
parseInt(str) ==
    LET t == trimStart(str)
        signed == t # <<>> /\ Head(t) \in {"-", "+"}
        body == IF signed THEN Tail(t) ELSE t
    IN IF body = <<>> \/ ~IsDigit(Head(body)) THEN [nan |-> TRUE, val |-> 0]
       ELSE [nan |-> FALSE,
             val |-> IF signed /\ Head(t) = "-" THEN 0 - digitsValue(body, 0)
                     ELSE digitsValue(body, 0)]

\* mutant: the upper end of the range is not tested
invalidGwNoUpperEnd(n) == n.nan \/ n.val = 0 \/ n.val < 1

\* !gw || gw < 1 || gw > 38
invalidGw(n) == n.nan \/ n.val = 0 \/ n.val < 1 \/ n.val > 38

\* the path segments the model sends as :gw, each with the property key it
\* is when used as one
RawGws ==
    { [chars |-> <<"1">>, key |-> "1"], [chars |-> <<"3","8">>, key |-> "38"],
      [chars |-> <<"0">>, key |-> "0"], [chars |-> <<"3","9">>, key |-> "39"],
      [chars |-> <<"-","1">>, key |-> "-1"], [chars |-> <<"a","b","c">>, key |-> "abc"],
      [chars |-> <<"5","a","b","c">>, key |-> "5abc"] }

charsOf(key) == (CHOOSE r \in RawGws : r.key = key).chars

\* no request is being served
Quiet == pc \in {"idle", "done", "failed", "rejected"}

\* the locals of an earlier request are gone
FreshLocals ==
    /\ pairs' = <<>>
    /\ captains' = [k \in {} |-> <<>>]
    /\ allEntries' = NoEntries
    /\ idx' = 0
    /\ worker' = IdleWorkers
    /\ entryPoints' = [e \in {} |-> 0]
    /\ responses' = <<>>
    /\ results' = <<>>

\* getPairs up to its first await, buildPairs and getStandings inside it
getPairs ==
    IF ~pairsCache.isNull
    THEN /\ pc' = "loaded"
         /\ UNCHANGED <<page, acc, calledAt>>
    ELSE IF ~standingsCache.isNull /\ now - standingsCacheTimestamp < STANDINGS_CACHE_TTL
    THEN /\ pc' = "buildPairs"
         /\ acc' = standingsCache.val
         /\ UNCHANGED <<page, calledAt>>
    ELSE /\ pc' = "standings"
         /\ page' = 1
         /\ acc' = <<>>
         /\ calledAt' = now

\* GET /api/gw/:gw arrives
GetGw ==
    /\ Quiet
    /\ \E raw \in RawGws :
         /\ request' = Request("GET", "gw", raw.key, NoBody)
         /\ IF invalidGw(parseInt(raw.chars))
            THEN /\ response' = [status |-> 400, error |-> "Invalid gameweek",
                                 json |-> <<>>]
                 /\ pc' = "rejected"
                 /\ UNCHANGED <<gw, page, acc, calledAt>>
            ELSE /\ response' = NoResponse
                 /\ gw' = raw.key
                 /\ getPairs
    /\ FreshLocals
    /\ UNCHANGED <<standingsCache, standingsCacheTimestamp, pairsCache, captainsFile,
                   upstream, now, captainLog>>
    /\ UNCHANGED clientVars
    /\ UNCHANGED inflightVars

\* GET /api/pairs arrives
GetPairs ==
    /\ Quiet
    /\ request' = Request("GET", "pairs", "", NoBody)
    /\ response' = NoResponse
    /\ getPairs
    /\ FreshLocals
    /\ UNCHANGED <<standingsCache, standingsCacheTimestamp, pairsCache, captainsFile,
                   upstream, now, captainLog, gw>>
    /\ UNCHANGED clientVars
    /\ UNCHANGED inflightVars

\* GET /api/pairs: getPairs has returned, the pairs are sent
RespondPairs ==
    /\ pc = "loaded"
    /\ request.route = "pairs"
    /\ response' = [status |-> 200, error |-> "", json |-> pairsCache.val]
    /\ pc' = "done"
    /\ UNCHANGED <<now, standingsCacheTimestamp, calledAt, request, captainLog>>
    /\ UNCHANGED serverGlobals
    /\ UNCHANGED standingsLocals
    /\ UNCHANGED scoreLocals
    /\ UNCHANGED clientVars
    /\ UNCHANGED inflightVars

\* time passes
Tick ==
    /\ now < MaxTicks * ClockStep
    /\ now' = now + ClockStep
    /\ UNCHANGED <<standingsCacheTimestamp, calledAt, request, response, captainLog, pc>>
    /\ UNCHANGED serverGlobals
    /\ UNCHANGED standingsLocals
    /\ UNCHANGED scoreLocals
    /\ UNCHANGED clientVars
    /\ UNCHANGED inflightVars

\* the server as started, every entry's points fetch answering with 1 point
InitGw ==
    /\ standingsCache = Null
    /\ pairsCache = Null
    /\ captainsFile = EmptyDoc
    /\ upstream = [e \in 1..MaxEntry |-> {Points(1)}]
    /\ pc = "idle"
    /\ page = 1
    /\ acc = <<>>
    /\ gw = ""
    /\ pairs = <<>>
    /\ captains = [k \in {} |-> <<>>]
    /\ allEntries = NoEntries
    /\ idx = 0
    /\ worker = IdleWorkers
    /\ entryPoints = [e \in {} |-> 0]
    /\ responses = <<>>
    /\ results = <<>>
    /\ ApiQuiet(Request("none", "none", "", NoBody))
    /\ ClientIdle(<<>>, EmptyDoc, EmptyDoc, "1")

NextGw ==
    \/ GetGw
    \/ GetPairs
    \/ RespondPairs
    \/ Tick
    \/ FetchStandingsPage
    \/ BuildPairs
    \/ NextScore

SpecGw == InitGw /\ [][NextGw]_vars

(***************************************************************************)
(* Concurrent getPairs calls.  A call made while pairsCache is empty runs  *)
(* buildPairs and getStandings; with no fresh standings it waits for       *)
(* fetchAllStandings.  When that resolves, getStandings stores the         *)
(* standings and returns; buildPairs resumes one continuation later and    *)
(* getPairs one after that.  Continuations run first in, first out, and a  *)
(* request or a network answer is taken up only when none is pending.      *)
(***************************************************************************)
\* mutant: a network answer is taken up between any two continuations
IoAtAnyAwait == TRUE

\* the event loop takes the next request or network answer
IoMayComplete == microtasks = <<>>

\* what the league's standings may read when fetched
RaceStandings ==
    { <<Row(1, <<"D","K","-","a">>), Row(2, <<"d","k"," ","B">>)>>,
      <<Row(2, <<"D","K","-","a">>), Row(1, <<"d","k"," ","B">>)>>,
      <<Row(1, <<"D","K","-","a">>)>> }

raceUntouched ==
    /\ UNCHANGED <<captainsFile, upstream, pc, now, calledAt, request, response,
                   captainLog, posts>>
    /\ UNCHANGED standingsLocals
    /\ UNCHANGED scoreLocals
    /\ UNCHANGED clientVars

\* a handler calls getPairs: up to the first await that suspends it
CallGetPairs(c) ==
    /\ IoMayComplete
    /\ calls[c].st = "none"
    /\ IF ~pairsCache.isNull
       THEN /\ calls' = [calls EXCEPT ![c].st = "returned", ![c].pairs = pairsCache.val]
            /\ UNCHANGED microtasks
       ELSE IF ~standingsCache.isNull /\ now - standingsCacheTimestamp < STANDINGS_CACHE_TTL
       THEN /\ calls' = [calls EXCEPT ![c].st = "build", ![c].now = now,
                                       ![c].standings = standingsCache.val]
            /\ microtasks' = Append(microtasks, c)
       ELSE /\ calls' = [calls EXCEPT ![c].st = "fetching", ![c].now = now]
            /\ UNCHANGED microtasks
    /\ UNCHANGED <<standingsCache, standingsCacheTimestamp, pairsCache>>
    /\ raceUntouched

\* fetchAllStandings resolves: getStandings stores the list and returns it
FetchAllStandingsResolves(c, rows) ==
    /\ IoMayComplete
    /\ calls[c].st = "fetching"
    /\ standingsCache' = Some(rows)
    /\ standingsCacheTimestamp' = calls[c].now
    /\ pairsCache' = Null
    /\ calls' = [calls EXCEPT ![c].st = "build", ![c].standings = rows]
    /\ microtasks' = Append(microtasks, c)
    /\ raceUntouched

\* fetchAllStandings rejects: the call throws
FetchAllStandingsRejects(c) ==
    /\ IoMayComplete
    /\ calls[c].st = "fetching"
    /\ calls' = [calls EXCEPT ![c].st = "threw"]
    /\ UNCHANGED <<standingsCache, standingsCacheTimestamp, pairsCache, microtasks>>
    /\ raceUntouched

\* the continuation at the head of the queue runs: buildPairs after its
\* await, or getPairs after its own
RunMicrotask ==
    /\ microtasks # <<>>
    /\ LET c == Head(microtasks)
       IN IF calls[c].st = "build"
          THEN /\ calls' = [calls EXCEPT ![c].st = "store",
                                         ![c].pairs = buildPairs(calls[c].standings)]
               /\ microtasks' = Append(Tail(microtasks), c)
               /\ UNCHANGED pairsCache
          ELSE /\ pairsCache' = Some(calls[c].pairs)
               /\ calls' = [calls EXCEPT ![c].st = "returned"]
               /\ microtasks' = Tail(microtasks)
    /\ UNCHANGED <<standingsCache, standingsCacheTimestamp>>
    /\ raceUntouched

NextRace ==
    \/ \E c \in Handlers : CallGetPairs(c)
    \/ \E c \in Handlers, rows \in RaceStandings : FetchAllStandingsResolves(c, rows)
    \/ \E c \in Handlers : FetchAllStandingsRejects(c)
    \/ RunMicrotask
    \/ Tick

SpecRace == InitGw /\ [][NextRace]_vars

(***************************************************************************)
(* GET /api/gw against an upstream that answers every fetch but is free to *)
(* say has_next on every page.  The loop of fetchAllStandings has no page  *)
(* limit; the page number only goes into the URL, so the pages after       *)
(* MaxPages are told apart by their parity alone.                          *)
(***************************************************************************)
\* page++
nextPage(p) == IF p <= MaxPages THEN p + 1 ELSE MaxPages

\* what a standings page may list
LivePages ==
    { <<>>, <<Row(1, <<"D","K","-","a">>)>>, <<Row(2, <<"d","k"," ","B">>)>> }

\* one turn of the loop of fetchAllStandings: the page arrives
FetchStandingsPageAnyUpstream ==
    /\ pc = "standings"
    /\ \/ \* fetchStandingsPage throws: the response was not ok
          /\ pc' = "failed"
          /\ response' = [status |-> 500, error |-> "Error fetching standings page",
                          json |-> <<>>]
          /\ UNCHANGED <<standingsCache, standingsCacheTimestamp, pairsCache, acc, page>>
       \/ \* the body holds no standings.results
          /\ StandingsReturned(acc)
          /\ UNCHANGED <<page, response>>
       \/ \E rows \in LivePages, has_next \in BOOLEAN :
             /\ Len(acc) + Len(rows) <= MaxRows
             /\ IF has_next
                THEN /\ acc' = acc \o rows
                     /\ page' = nextPage(page)
                     /\ UNCHANGED <<standingsCache, standingsCacheTimestamp,
                                    pairsCache, pc, response>>
                ELSE /\ StandingsReturned(acc \o rows)
                     /\ UNCHANGED <<page, response>>
    /\ UNCHANGED <<captainsFile, upstream, now, calledAt, request, captainLog>>
    /\ UNCHANGED scoreLocals
    /\ UNCHANGED clientVars
    /\ UNCHANGED inflightVars

NextLive ==
    \/ GetGw
    \/ FetchStandingsPageAnyUpstream
    \/ BuildPairs
    \/ NextScore

\* every fetch is answered and every continuation runs
SpecLive ==
    /\ InitGw
    /\ [][NextLive]_vars
    /\ WF_vars(FetchStandingsPageAnyUpstream)
    /\ WF_vars(BuildPairs)
    /\ WF_vars(NextScore)

(***************************************************************************)
(* handleRequest: /api/captains/:gw                                        *)
(***************************************************************************)
\* /api/captains requests a run serves
MaxRequests == 2

\* mutant: text that is not JSON reads as {}
parseJsonBodyLenient(body) ==
    [threw |-> FALSE,
     json |-> IF body.kind = "object" THEN Some(body.val)
              ELSE IF body.kind \in {"empty", "malformed"} THEN Some(NoCaptains)
              ELSE Null]

\* JSON.parse(data || '{}'): no data reads as {}, the text null as null
parseJsonBody(body) ==
    [threw |-> body.kind = "malformed",
     json |-> IF body.kind = "object" THEN Some(body.val)
              ELSE IF body.kind = "empty" THEN Some(NoCaptains)
              ELSE Null]

\* body || {}
orEmpty(json) == IF json.isNull THEN NoCaptains ELSE json.val

\* mutant: the posted mapping is merged into the one stored for the gameweek
setByGwMerged(doc, key, mapping) ==
    [k \in DOMAIN doc \cup {key} |->
        IF k # key THEN doc[k]
        ELSE IF key \notin DOMAIN doc THEN mapping
        ELSE [t \in DOMAIN doc[key] \cup DOMAIN mapping |->
                 IF t \in DOMAIN mapping THEN mapping[t] ELSE doc[key][t]]]

\* captains.byGw[gw] = body || {}
setByGw(doc, key, mapping) ==
    [k \in DOMAIN doc \cup {key} |-> IF k = key THEN mapping ELSE doc[k]]

\* JSON.stringify of the document: the members of the text, key by key
stringify(doc) ==
    { <<k, { <<t, doc[k][t]>> : t \in DOMAIN doc[k] }>> : k \in DOMAIN doc }

\* JSON.parse of that text
parse(text) ==
    [k \in { m[1] : m \in text } |->
        LET members == (CHOOSE m \in text : m[1] = k)[2]
        IN [t \in { n[1] : n \in members } |->
               (CHOOSE n \in members : n[1] = t)[2]]]

\* saveCaptains wrote the file: what loadCaptains reads from it afterwards
saveCaptains(doc) == parse(stringify(doc))

\* what fs.writeFileSync can come to: the file written; an error with the
\* file as it was; an error with the file cut short, which loadCaptains reads
\* as { byGw: {} }
WriteOutcomes == {"written", "failed", "truncated"}

Logged(req, res, threw) == [request |-> req, response |-> res, saveThrew |-> threw]

OkResponse == [status |-> 200, error |-> "", json |-> <<>>]
InvalidJsonBody == [status |-> 400, error |-> "Invalid JSON body", json |-> <<>>]
NotFound == [status |-> 404, error |-> "Not found", json |-> <<>>]

\* a captains request is answered: the response is sent and logged
Answered(req, res, threw) ==
    /\ request' = req
    /\ response' = res
    /\ captainLog' = Append(captainLog, Logged(req, res, threw))

captainsUntouched ==
    /\ UNCHANGED <<standingsCache, pairsCache, upstream, pc, now,
                   standingsCacheTimestamp, calledAt>>
    /\ UNCHANGED standingsLocals
    /\ UNCHANGED scoreLocals
    /\ UNCHANGED clientVars
    /\ UNCHANGED inflightVars

\* GET /api/captains/:gw
GetCaptains(key) ==
    /\ Quiet
    /\ Len(captainLog) < MaxRequests
    /\ Answered(Request("GET", "captains", key, NoBody),
                [status |-> 200, error |-> "",
                 json |-> captainsForGw(loadCaptains(captainsFile), key)],
                FALSE)
    /\ UNCHANGED captainsFile
    /\ captainsUntouched

\* POST /api/captains/:gw with this body, the write ending as outcome says
PostCaptains(key, body, outcome) ==
    /\ Quiet
    /\ Len(captainLog) < MaxRequests
    /\ LET req == Request("POST", "captains", key, body)
           loaded == loadCaptains(captainsFile)
           parsed == parseJsonBody(body)
       IN IF parsed.threw
          THEN /\ outcome = "written"
               /\ Answered(req, InvalidJsonBody, FALSE)
               /\ UNCHANGED captainsFile
          ELSE IF outcome = "written"
          THEN /\ captainsFile' = saveCaptains(setByGw(loaded, key, orEmpty(parsed.json)))
               /\ Answered(req, OkResponse, FALSE)
          ELSE /\ captainsFile' = IF outcome = "failed" THEN captainsFile ELSE EmptyDoc
               /\ Answered(req, InvalidJsonBody, TRUE)
    /\ captainsUntouched

\* any other method on /api/captains/:gw, PUT among them: the unknown route
PutCaptains(key, body) ==
    /\ Quiet
    /\ Len(captainLog) < MaxRequests
    /\ Answered(Request("PUT", "captains", key, body), NotFound, FALSE)
    /\ UNCHANGED captainsFile
    /\ captainsUntouched

\* the mappings and bodies of the captains runs
StoredMaps == { [t \in {"Dark Knights"} |-> 1], [t \in {"Banter Bros"} |-> 2] }

CaptainDocs == UNION { [ks -> StoredMaps] : ks \in SUBSET GwKeys }

Bodies ==
    { [kind |-> "object", val |-> m] : m \in StoredMaps \cup {NoCaptains} }
    \cup { [kind |-> k, val |-> NoCaptains] : k \in {"empty", "null", "malformed"} }

InitCaptainsApi ==
    /\ standingsCache = Null
    /\ pairsCache = Null
    /\ captainsFile \in CaptainDocs
    /\ upstream = [e \in {} |-> {}]
    /\ pc = "idle"
    /\ page = 1
    /\ acc = <<>>
    /\ gw = ""
    /\ pairs = <<>>
    /\ captains = [k \in {} |-> <<>>]
    /\ allEntries = NoEntries
    /\ idx = 0
    /\ worker = IdleWorkers
    /\ entryPoints = [e \in {} |-> 0]
    /\ responses = <<>>
    /\ results = <<>>
    /\ ApiQuiet(Request("none", "none", "", NoBody))
    /\ ClientIdle(<<>>, EmptyDoc, EmptyDoc, "1")

NextCaptainsApi ==
    \/ \E key \in GwKeys : GetCaptains(key)
    \/ \E key \in GwKeys, body \in Bodies, outcome \in WriteOutcomes :
          PostCaptains(key, body, outcome)
    \/ \E key \in GwKeys, body \in Bodies : PutCaptains(key, body)

SpecCaptainsApi == InitCaptainsApi /\ [][NextCaptainsApi]_vars

(***************************************************************************)
(* POST /api/captains/:gw with both of its steps: handleRequest loads the  *)
(* document, then awaits the request body; when the body has ended it sets *)
(* the gameweek in the document it loaded and saves that.  Another request *)
(* may be served while the body is awaited.                                *)
(***************************************************************************)
\* const captains = loadCaptains(), as handler h holds it
loadedBy(h) == posts[h].captains

\* the request arrives: the document is loaded and the body awaited
PostBegins(h, key, body) ==
    /\ Quiet
    /\ posts[h].st = "none"
    /\ posts' = [posts EXCEPT ![h] = [st |-> "body", key |-> key, body |-> body,
                                      captains |-> loadCaptains(captainsFile),
                                      ok |-> FALSE]]
    /\ UNCHANGED <<captainsFile, request, response, captainLog, calls, microtasks>>
    /\ UNCHANGED <<standingsCache, pairsCache, upstream, pc, now,
                   standingsCacheTimestamp, calledAt>>
    /\ UNCHANGED standingsLocals
    /\ UNCHANGED scoreLocals
    /\ UNCHANGED clientVars

\* the body has ended: parse, set, save, respond
PostBodyEnds(h, outcome) ==
    /\ posts[h].st = "body"
    /\ LET req == Request("POST", "captains", posts[h].key, posts[h].body)
           parsed == parseJsonBody(posts[h].body)
       IN IF parsed.threw
          THEN /\ outcome = "written"
               /\ Answered(req, InvalidJsonBody, FALSE)
               /\ posts' = [posts EXCEPT ![h].st = "sent"]
               /\ UNCHANGED captainsFile
          ELSE IF outcome = "written"
          THEN /\ captainsFile' = saveCaptains(setByGw(loadedBy(h), posts[h].key,
                                                       orEmpty(parsed.json)))
               /\ Answered(req, OkResponse, FALSE)
               /\ posts' = [posts EXCEPT ![h].st = "sent", ![h].ok = TRUE]
          ELSE /\ captainsFile' = IF outcome = "failed" THEN captainsFile ELSE EmptyDoc
               /\ Answered(req, InvalidJsonBody, TRUE)
               /\ posts' = [posts EXCEPT ![h].st = "sent"]
    /\ UNCHANGED <<calls, microtasks>>
    /\ UNCHANGED <<standingsCache, pairsCache, upstream, pc, now,
                   standingsCacheTimestamp, calledAt>>
    /\ UNCHANGED standingsLocals
    /\ UNCHANGED scoreLocals
    /\ UNCHANGED clientVars

NextPosts ==
    \/ \E h \in Handlers, key \in GwKeys, body \in Bodies : PostBegins(h, key, body)
    \/ \E h \in Handlers, outcome \in WriteOutcomes : PostBodyEnds(h, outcome)

SpecPosts == InitCaptainsApi /\ [][NextPosts]_vars

(***************************************************************************)
(* The browser clients that score in the page (src/unnamed/part_000 and    *)
(* part_001).  Three of the rostered teams, in the roster's order, with    *)
(* the overrides that name their managers.                                 *)
(***************************************************************************)
MaxClientPts == 1

ClientVariants == {"part_000", "part_001"}

TEAMS ==
    << [teamName |-> "Banter Bros", teamChars |-> <<"B","a","n","t","e","r"," ","B","r","o","s">>,
        members |-> <<<<"A","a","d","i">>, <<"A","n","i","k","e","t">>>>],
       [teamName |-> "Stretford Kops", teamChars |-> <<"S","t","r","e","t","f","o","r","d"," ","K","o","p","s">>,
        members |-> <<<<"A","d","i","t","y","a">>, <<"J","e","e","t","e","s","h">>>>],
       [teamName |-> "Thunderbolts", teamChars |-> <<"T","h","u","n","d","e","r","b","o","l","t","s">>,
        members |-> <<<<"K","a","p","i","l"," ","C">>, <<"P","r","a","s","h","a","n","t">>>>] >>

\* short name -> exact manager name
NAME_OVERRIDES ==
    { [short |-> <<"A","a","d","i">>, exact |-> <<"A","d","i","t","y","a"," ","H","a","l","w","e">>],
      [short |-> <<"A","n","i","k","e","t">>, exact |-> <<"A","n","i","k","e","t"," ","S","a","i","n","a","n","i">>],
      [short |-> <<"J","e","e","t","e","s","h">>, exact |-> <<"J","e","e","t","e","s","h"," ","A","s","s","u","d","a","n","i">>] }

TEAM_SPECIFIC_OVERRIDES ==
    { [teamName |-> "Stretford Kops", short |-> <<"A","d","i","t","y","a">>, exact |-> <<"A"," ","S">>],
      [teamName |-> "The Anfield Devils", short |-> <<"A","d","i","t","y","a">>, exact |-> <<"A","d","i","t","y","a"," ","R","a","o">>],
      [teamName |-> "Thunderbolts", short |-> <<"K","a","p","i","l"," ","C">>, exact |-> <<"K","a","p","i","l"," ","C","h","a","u","d","h","a","r","y">>] }

\* an object's property read: the empty string stands for undefined
teamOverrideOf(teamName, target) ==
    LET hits == {o \in TEAM_SPECIFIC_OVERRIDES : o.teamName = teamName /\ o.short = target}
    IN IF hits = {} THEN <<>> ELSE (CHOOSE o \in hits : TRUE).exact

overrideOf(target) ==
    LET hits == {o \in NAME_OVERRIDES : o.short = target}
    IN IF hits = {} THEN <<>> ELSE (CHOOSE o \in hits : TRUE).exact

IsLetter(c) == IndexIn(UpperCase, c) > 0 \/ IndexIn(LowerCase, c) > 0

\* lower case, then whitespace and punctuation removed: the letters stay
norm(str) == SelectSeq(toLowerCase(str), IsLetter)

includes(a, b) ==
    \E i \in 0..(Len(a) - Len(b)) : SubSeq(a, i + 1, i + Len(b)) = b

similar(a, b) ==
    IF norm(a) = <<>> \/ norm(b) = <<>> THEN FALSE
    ELSE IF norm(a) = norm(b) THEN TRUE
    ELSE includes(norm(a), norm(b)) \/ includes(norm(b), norm(a))

(***************************************************************************)
(* The directory is a Map: a key set again keeps its place and takes the   *)
(* new value.  It is kept here as the sequence of its entries in insertion *)
(* order.                                                                  *)
(***************************************************************************)
has(dir, k) == \E i \in 1..Len(dir) : dir[i].manager = k

get(dir, k) == dir[CHOOSE i \in 1..Len(dir) : dir[i].manager = k].entryId

set(dir, k, v) ==
    IF has(dir, k)
    THEN [i \in 1..Len(dir) |->
             IF dir[i].manager = k THEN [manager |-> k, entryId |-> v] ELSE dir[i]]
    ELSE Append(dir, [manager |-> k, entryId |-> v])

\* rows without a name or without an entry id are skipped
RECURSIVE fetchLeagueDirectory(_, _)
fetchLeagueDirectory(rows, nameToEntry) ==
    IF rows = <<>> THEN nameToEntry
    ELSE LET r == Head(rows)
         IN fetchLeagueDirectory(Tail(rows),
                IF r.player_name # <<>> /\ r.entry # 0
                THEN set(nameToEntry, r.player_name, r.entry)
                ELSE nameToEntry)

\* keys.find(k => norm(k) === norm(target)): the entry id found, 0 for none
RECURSIVE findNormEqual(_, _)
findNormEqual(dir, target) ==
    IF dir = <<>> THEN 0
    ELSE IF norm(Head(dir).manager) = norm(target) THEN Head(dir).entryId
    ELSE findNormEqual(Tail(dir), target)

\* keys.find(k => similar(k, target))
RECURSIVE findSimilar(_, _)
findSimilar(dir, target) ==
    IF dir = <<>> THEN 0
    ELSE IF similar(Head(dir).manager, target) THEN Head(dir).entryId
    ELSE findSimilar(Tail(dir), target)

\* part_001's resolveEntryId, and part_000's after its overrides
resolveByName(dir, target) ==
    IF has(dir, target) THEN get(dir, target)
    ELSE IF findNormEqual(dir, target) # 0 THEN findNormEqual(dir, target)
    ELSE findSimilar(dir, target)

\* the automatic matching tried before the overrides
resolveEntryIdAutomaticFirst(variant, dir, target, teamName) ==
    IF resolveByName(dir, target) # 0 THEN resolveByName(dir, target)
    ELSE IF variant = "part_001" THEN 0
    ELSE IF teamOverrideOf(teamName, target) # <<>> /\ has(dir, teamOverrideOf(teamName, target))
    THEN get(dir, teamOverrideOf(teamName, target))
    ELSE IF overrideOf(target) # <<>> /\ has(dir, overrideOf(target))
    THEN get(dir, overrideOf(target))
    ELSE 0

\* 0 stands for null
resolveEntryId(variant, dir, target, teamName) ==
    IF variant = "part_001" THEN resolveByName(dir, target)
    ELSE IF teamOverrideOf(teamName, target) # <<>> /\ has(dir, teamOverrideOf(teamName, target))
    THEN get(dir, teamOverrideOf(teamName, target))
    ELSE IF overrideOf(target) # <<>> /\ has(dir, overrideOf(target))
    THEN get(dir, overrideOf(target))
    ELSE resolveByName(dir, target)

\* (doc[gw] || {})[teamName] || null, 0 standing for every falsy value
captainIn(doc, g, teamName) ==
    IF g \in DOMAIN doc /\ teamName \in DOMAIN doc[g] THEN doc[g][teamName] ELSE 0

\* part_000 reads captains.json first, then localStorage; part_001 reads
\* localStorage only
storedCaptain(variant, static, local, g, teamName) ==
    IF variant = "part_000" /\ captainIn(static, g, teamName) # 0
    THEN captainIn(static, g, teamName)
    ELSE captainIn(local, g, teamName)

resolved(variant, dir, team) ==
    <<resolveEntryId(variant, dir, team.members[1], team.teamName),
      resolveEntryId(variant, dir, team.members[2], team.teamName)>>

\* m1.entryId and m2.entryId of every team from team t on
RECURSIVE resolvedAll(_, _, _)
resolvedAll(variant, dir, t) ==
    IF t > Len(TEAMS) THEN <<>>
    ELSE <<resolved(variant, dir, TEAMS[t])>> \o resolvedAll(variant, dir, t + 1)

isResolved(ids) == ids[1] # 0 /\ ids[2] # 0

\* the row results.push receives for a team with both entry ids
clientResult(variant, ids, pts, static, local, g, team) ==
    LET m1 == [manager |-> team.members[1], entryId |-> ids[1], points |-> pts[ids[1]]]
        m2 == [manager |-> team.members[2], entryId |-> ids[2], points |-> pts[ids[2]]]
        stored == storedCaptain(variant, static, local, g, team.teamName)
        autoLowest == stored = 0
        captainEntryId == IF stored # 0 THEN stored
                          ELSE IF m1.points <= m2.points THEN m1.entryId ELSE m2.entryId
        base == m1.points + m2.points
        captainPoints == IF captainEntryId = m1.entryId THEN m1.points ELSE m2.points
    IN [teamName |-> team.teamName, teamChars |-> team.teamChars,
        members |-> <<m1, m2>>, captainEntryId |-> captainEntryId,
        autoLowest |-> autoLowest, teamPoints |-> base + captainPoints]

\* the loop over TEAMS from team t on: the rows pushed, in the roster's order
RECURSIVE pushed(_, _, _, _, _, _, _)
pushed(variant, all, pts, static, local, g, t) ==
    IF t > Len(TEAMS) THEN <<>>
    ELSE IF isResolved(all[t])
    THEN <<clientResult(variant, all[t], pts, static, local, g, TEAMS[t])>>
         \o pushed(variant, all, pts, static, local, g, t + 1)
    ELSE pushed(variant, all, pts, static, local, g, t + 1)

\* the "could not resolve" rows, in the roster's order
RECURSIVE notResolved(_, _)
notResolved(all, t) ==
    IF t > Len(TEAMS) THEN <<>>
    ELSE IF isResolved(all[t]) THEN notResolved(all, t + 1)
    ELSE <<[teamName |-> TEAMS[t].teamName,
            missing |-> {i \in 1..2 : all[t][i] = 0}]>>
         \o notResolved(all, t + 1)

\* the entry ids whose points loadResults fetches
fetchedIds(all) ==
    UNION { {all[t][1], all[t][2]} : t \in {u \in 1..Len(TEAMS) : isResolved(all[u])} }

\* part_000 sorts the rows before rendering them; part_001 renders them as
\* pushed
rendered(variant, rows) ==
    IF variant = "part_000" THEN sort(rows, "teamPointsThenName") ELSE rows

\* loadResults from the fetch of the directory to the rendered table, with
\* localStorage holding local
fetchAndRender(variant, local) ==
    \E all \in {resolvedAll(variant, fetchLeagueDirectory(leagueRows, <<>>), 1)} :
       \E pts \in [fetchedIds(all) -> 0..MaxClientPts] :
          /\ displayed' = rendered(variant,
                              pushed(variant, all, pts, staticCaptains,
                                     local, currentGw, 1))
          /\ unresolved' = notResolved(all, 1)

\* a click on Fetch with a valid gameweek, up to the rendered table
loadResults(variant) ==
    /\ shown = "none"
    /\ fetchAndRender(variant, localCaptains)
    /\ shown' = variant
    /\ UNCHANGED <<leagueRows, staticCaptains, localCaptains, currentGw, chosen>>
    /\ UNCHANGED serverVars

NextClient == \E variant \in ClientVariants : loadResults(variant)

(***************************************************************************)
(* Inputs of the client runs: the league lists some of these managers, in  *)
(* this order or in the reverse one.                                       *)
(***************************************************************************)
LeagueCatalog ==
    << [player_name |-> <<"A","d","i","t","y","a"," ","H","a","l","w","e">>, entry |-> 1],
       [player_name |-> <<"A","n","i","k","e","t"," ","S","a","i","n","a","n","i">>, entry |-> 2],
       [player_name |-> <<"A"," ","S">>, entry |-> 3],
       [player_name |-> <<"J","e","e","t","e","s","h"," ","A","s","s","u","d","a","n","i">>, entry |-> 4],
       [player_name |-> <<"K","a","p","i","l"," ","C","h","a","u","d","h","a","r","y">>, entry |-> 5],
       [player_name |-> <<"P","r","a","s","h","a","n","t">>, entry |-> 6],
       [player_name |-> <<"A">>, entry |-> 7],
       [player_name |-> <<"A","d","i","t","y","a">>, entry |-> 8],
       [player_name |-> <<"p","r","a","s","h","a","n","t">>, entry |-> 9] >>

RECURSIVE listed(_, _)
listed(kept, i) ==
    IF i > Len(LeagueCatalog) THEN <<>>
    ELSE IF i \in kept THEN <<LeagueCatalog[i]>> \o listed(kept, i + 1)
    ELSE listed(kept, i + 1)

reversed(rows) == [i \in 1..Len(rows) |-> rows[Len(rows) + 1 - i]]

Leagues ==
    { listed(kept, 1) : kept \in SUBSET (1..Len(LeagueCatalog)) }
    \cup { reversed(listed(kept, 1)) : kept \in SUBSET (1..Len(LeagueCatalog)) }

\* nothing stored, or a captain stored for Banter Bros in gameweek 1
ClientCaptainDocs(ids) ==
    {EmptyDoc} \cup { [k \in {"1"} |-> [t \in {"Banter Bros"} |-> c]] : c \in ids }

InitClient ==
    /\ ServerIdle
    /\ \E rows \in Leagues, static \in ClientCaptainDocs({2}),
          local \in ClientCaptainDocs({1}) :
            ClientIdle(rows, static, local, "1")

SpecClient == InitClient /\ [][NextClient]_vars

(***************************************************************************)
(* The captain editor of the two localStorage clients: loadResults renders *)
(* one row of two radios per result row, the submit handler stores the     *)
(* checked radios and calls loadResults again.                             *)
(***************************************************************************)
\* all[String(gw)] || {}
getAllCaptainsForGw(all, g) == IF g \in DOMAIN all THEN all[g] ELSE NoCaptains

setCaptainFor(all, g, teamName, entryId) ==
    [k \in DOMAIN all \cup {g} |->
        IF k = g
        THEN [t \in DOMAIN getAllCaptainsForGw(all, g) \cup {teamName} |->
                 IF t = teamName THEN entryId ELSE getAllCaptainsForGw(all, g)[t]]
        ELSE all[k]]

\* the value a row's radios are preset from: part_000 reads localStorage,
\* then captains.json; part_001 reads localStorage only.  0 stands for null
selected(variant, teamName) ==
    IF captainIn(localCaptains, currentGw, teamName) # 0
    THEN captainIn(localCaptains, currentGw, teamName)
    ELSE IF variant = "part_000" THEN captainIn(staticCaptains, currentGw, teamName)
    ELSE 0

\* the value of the radio of row r that is checked at submit, 0 for none:
\* the one the user clicked, or else the one preset
checkedValue(variant, r, click) ==
    IF click.row = r THEN displayed[r].members[click.member].entryId
    ELSE IF selected(variant, displayed[r].teamName) = displayed[r].members[1].entryId
    THEN displayed[r].members[1].entryId
    ELSE IF selected(variant, displayed[r].teamName) = displayed[r].members[2].entryId
    THEN displayed[r].members[2].entryId
    ELSE 0

\* the object the submit handler gathers from the rows
gathered(variant, click) ==
    LET rows == {r \in 1..Len(displayed) : checkedValue(variant, r, click) # 0}
    IN [t \in {displayed[r].teamName : r \in rows} |->
           checkedValue(variant,
                        CHOOSE r \in rows : displayed[r].teamName = t, click)]

\* Object.entries(chosen).forEach(setCaptainFor), from row r on
RECURSIVE setAll(_, _, _, _)
setAll(all, g, picks, r) ==
    IF r > Len(displayed) THEN all
    ELSE IF displayed[r].teamName \in DOMAIN picks
    THEN setAll(setCaptainFor(all, g, displayed[r].teamName,
                              picks[displayed[r].teamName]), g, picks, r + 1)
    ELSE setAll(all, g, picks, r + 1)

NoClick == [row |-> 0, member |-> 1]

Clicks ==
    {NoClick} \cup {[row |-> r, member |-> m] : r \in 1..Len(displayed), m \in 1..2}

\* Save captains: the checked radios are stored and the results are loaded
\* again
captainFormSubmit(click) ==
    /\ shown # "none"
    /\ click \in Clicks
    /\ \E picks \in {gathered(shown, click)} :
         \E saved \in {setAll(localCaptains, currentGw, picks, 1)} :
            /\ chosen' = picks
            /\ localCaptains' = saved
            /\ fetchAndRender(shown, saved)
    /\ UNCHANGED <<leagueRows, staticCaptains, currentGw, shown>>
    /\ UNCHANGED serverVars

NextEditor ==
    \/ \E variant \in ClientVariants : loadResults(variant)
    \/ \E r \in 0..Len(TEAMS), m \in 1..2 : captainFormSubmit([row |-> r, member |-> m])

\* directories in which Banter Bros resolves in at least one client
EditorLeagues == {listed({1, 2}, 1), listed({1, 2, 7}, 1), listed({2, 7}, 1)}

InitEditor ==
    /\ ServerIdle
    /\ \E rows \in EditorLeagues, static \in ClientCaptainDocs({2}),
          local \in ClientCaptainDocs({1}) :
            ClientIdle(rows, static, local, "1")

SpecEditor == InitEditor /\ [][NextEditor]_vars
(***************************************************************************)
(* Properties of computeScoresForGw's captain rule (under SpecCaptain).    *)
(***************************************************************************)
Responded == pc = "done"

ScoredAt == {i \in 1..Len(results) : hasTeamPoints(results[i])}

\* a captain value is stored for the request's gameweek and the team
IsStored(team) == gw \in DOMAIN captains /\ team \in DOMAIN captains[gw]

MemberIds(r) == {r.members[1].entryId, r.members[2].entryId}

\* the stored value is the entry id of one of the team's members
StoredMember(r) == IsStored(r.teamName) /\ captains[gw][r.teamName] \in MemberIds(r)

\* the two members in both orders
BothWays(r) == {<<r.members[1], r.members[2]>>, <<r.members[2], r.members[1]>>}

lowerName(m) == toLowerCase(m.squadName)

\* the captain is the one the lowest-scorer rule names, the tie by squad name
LowestScorerRule(r) ==
    /\ r.autoLowest
    /\ r.captainEntryId \in MemberIds(r)
    /\ \A mm \in BothWays(r) :
          /\ mm[1].points < mm[2].points => r.captainEntryId = mm[1].entryId
          /\ (mm[1].points = mm[2].points /\ StrLess(lowerName(mm[1]), lowerName(mm[2])))
                => r.captainEntryId = mm[1].entryId
    /\ \E m \in {r.members[1], r.members[2]} :
          /\ m.entryId = r.captainEntryId
          /\ r.teamPoints = r.members[1].points + r.members[2].points + m.points

\* C1: with no captain stored for the gameweek and member points p1 < p2, in
\* either position, the captain is the member scoring p1, autoLowest is true
\* and teamPoints = p1 + p2 + p1.
C1_AutoCaptainLowest ==
    Responded =>
        \A i \in ScoredAt : \A mm \in BothWays(results[i]) :
            (~IsStored(results[i].teamName) /\ mm[1].points < mm[2].points)
                => /\ results[i].captainEntryId = mm[1].entryId
                   /\ results[i].autoLowest
                   /\ results[i].teamPoints = mm[1].points + mm[2].points + mm[1].points

\* the scenario: 60 and 45 with no captain stored, the 45-scorer listed second
C1_Witness ==
    /\ Responded
    /\ \E i \in ScoredAt :
          /\ ~IsStored(results[i].teamName)
          /\ results[i].members[1].points = 60
          /\ results[i].members[2].points = 45
          /\ results[i].captainEntryId = results[i].members[2].entryId
          /\ results[i].teamPoints = 150

\* C2: a stored captain id that is neither member's entry id leaves the team
\* scored by the lowest-scorer rule: autoLowest is true and the captain is one
\* of the two members.
C2_ForeignCaptainFallsBack ==
    Responded =>
        \A i \in ScoredAt :
            (IsStored(results[i].teamName) /\ ~StoredMember(results[i]))
                => LowestScorerRule(results[i])

C2_Witness ==
    /\ Responded
    /\ \E i \in ScoredAt :
          /\ IsStored(results[i].teamName)
          /\ captains[gw][results[i].teamName] = MaxEntry + 1
          /\ results[i].members[1].points > results[i].members[2].points
          /\ results[i].captainEntryId = results[i].members[2].entryId
          /\ results[i].autoLowest

\* C3: with equal points and no valid explicit captain, the captain is the
\* member whose squad name is the smaller one compared case-insensitively,
\* whichever position that member has.
C3_TieBreakBySquadName ==
    Responded =>
        \A i \in ScoredAt : \A mm \in BothWays(results[i]) :
            (/\ ~StoredMember(results[i])
             /\ mm[1].points = mm[2].points
             /\ StrLess(lowerName(mm[1]), lowerName(mm[2])))
                => results[i].captainEntryId = mm[1].entryId

\* the smaller name is second, and is the larger one when case counts
C3_Witness ==
    /\ Responded
    /\ \E i \in ScoredAt :
          LET m1 == results[i].members[1]
              m2 == results[i].members[2]
          IN /\ ~StoredMember(results[i])
             /\ m1.points = m2.points
             /\ m1.entryId # m2.entryId
             /\ StrLess(lowerName(m2), lowerName(m1))
             /\ StrLess(m1.squadName, m2.squadName)
             /\ results[i].captainEntryId = m2.entryId

\* C4: the captain is always one of the two members, captainPoints is that
\* member's points, teamPoints = points(m1) + points(m2) + points(captain), and
\* a stored id that is a member's makes that member captain, not auto-selected.
C4_CaptainIsMemberAndTotal ==
    Responded =>
        \A i \in ScoredAt :
            LET r == results[i]
            IN /\ r.captainEntryId \in MemberIds(r)
               /\ \E m \in {r.members[1], r.members[2]} :
                     m.entryId = r.captainEntryId /\ m.points = r.captainPoints
               /\ r.teamPoints = r.members[1].points + r.members[2].points + r.captainPoints
               /\ StoredMember(r) =>
                     r.captainEntryId = captains[gw][r.teamName] /\ ~r.autoLowest

\* the stored captain is the higher scorer: 45 + 60 + 60
C4_Witness ==
    /\ Responded
    /\ \E i \in ScoredAt :
          LET r == results[i]
          IN /\ StoredMember(r)
             /\ r.members[1].points = 45
             /\ r.members[2].points = 60
             /\ r.captainEntryId = r.members[2].entryId
             /\ ~r.autoLowest
             /\ r.teamPoints = 165

(***************************************************************************)
(* Properties of buildPairs (under SpecPairs).                             *)
(***************************************************************************)
PairsBuilt == pc = "loaded" /\ ~pairsCache.isNull /\ ~standingsCache.isNull

\* the standings rows whose squad name matches the team's prefix
MatchingRows(t) ==
    {i \in 1..Len(standingsCache.val) :
        hasPrefix(standingsCache.val[i].entry_name, ABBREVIATIONS[t].prefix)}

\* C5: a team whose prefix matches zero, one or more than two standings rows
\* is flagged invalid, with an error and no members; no team is returned
\* with a single member.
C5_NotTwoMatchesFlagged ==
    PairsBuilt =>
        /\ Len(pairsCache.val) = Len(ABBREVIATIONS)
        /\ \A t \in 1..Len(ABBREVIATIONS) :
              LET p == pairsCache.val[t]
              IN /\ p.name = ABBREVIATIONS[t].teamName
                 /\ Cardinality(MatchingRows(t)) # 2 => p.error /\ p.members = <<>>
                 /\ Cardinality(MatchingRows(t)) = 2 => ~p.error
                 /\ Len(p.members) \in {0, 2}

\* Dark Knights (the third team) has exactly one matching row, out of two
C5_Witness ==
    /\ PairsBuilt
    /\ Len(standingsCache.val) = 2
    /\ Cardinality(MatchingRows(3)) = 1
    /\ pairsCache.val[3].error
    /\ pairsCache.val[3].members = <<>>

\* buildPairs: a team not flagged invalid has two different entries
ServerMembersDistinct ==
    PairsBuilt =>
        \A t \in 1..Len(pairsCache.val) :
            ~pairsCache.val[t].error =>
                pairsCache.val[t].members[1].entryId # pairsCache.val[t].members[2].entryId

\* loadResults: a team with a result row has two different entries
ClientMembersDistinct ==
    shown # "none" =>
        \A i \in 1..Len(displayed) :
            displayed[i].members[1].entryId # displayed[i].members[2].entryId

\* C6 (as claimed): every team that is scored, by the server's buildPairs or
\* by a client's loadResults, has two members with distinct entry ids.
C6_ScoredMembersDistinct == ServerMembersDistinct /\ ClientMembersDistinct

(***************************************************************************)
(* Properties of computeScoresForGw's result list (under SpecRank).        *)
(***************************************************************************)
resultName(r) == IF hasTeamPoints(r) THEN r.teamName ELSE r.name

\* C7 (as claimed): for any two scored teams A before B in the results,
\* teamPoints(A) >= teamPoints(B), error entries among them or not.
C7_ScoredNonIncreasing ==
    Responded =>
        \A i \in ScoredAt : \A j \in ScoredAt :
            i < j => results[i].teamPoints >= results[j].teamPoints

\* C10: the results hold exactly one entry per team of the pairs list, an
\* error entry with the team's name for each team without two members and a
\* scored entry for each team with them.
C10_OneResultPerTeam ==
    Responded =>
        /\ Len(results) = Len(pairs)
        /\ \A t \in 1..Len(pairs) :
              /\ Cardinality({i \in 1..Len(results) : resultName(results[i]) = pairs[t].name}) = 1
              /\ \A i \in 1..Len(results) :
                    resultName(results[i]) = pairs[t].name
                        => (hasTeamPoints(results[i]) <=> Len(pairs[t].members) = 2)

\* a team without two members stands between two teams that are scored
C10_Witness ==
    /\ Responded
    /\ Len(pairs) >= 3
    /\ Len(pairs[1].members) = 2
    /\ Len(pairs[2].members) # 2
    /\ Len(pairs[3].members) = 2
    /\ \E i \in ScoredAt : results[i].teamName = pairs[1].name
    /\ \E i \in ScoredAt : results[i].teamName = pairs[3].name
    /\ \E i \in 1..Len(results) :
          ~hasTeamPoints(results[i]) /\ results[i].name = pairs[2].name

pairsIndex(name) == CHOOSE t \in 1..Len(pairs) : pairs[t].name = name

\* computeScoresForGw: scored teams with equal teamPoints keep the order they
\* have in the pairs list
ServerTiesKeepPairsOrder ==
    Responded =>
        \A i \in ScoredAt : \A j \in ScoredAt :
            (i < j /\ results[i].teamPoints = results[j].teamPoints)
                => pairsIndex(results[i].teamName) < pairsIndex(results[j].teamName)

\* part_000: rows with equal teamPoints are in ascending order of teamName
ClientTiesByTeamName ==
    shown = "part_000" =>
        \A i \in 1..Len(displayed) : \A j \in 1..Len(displayed) :
            (i < j /\ displayed[i].teamPoints = displayed[j].teamPoints)
                => localeCompare(displayed[i].teamChars, displayed[j].teamChars) < 0

\* the rows a client variant displays, top to bottom, never rise in teamPoints
DisplayedNonIncreasing(variant) ==
    shown = variant =>
        \A i \in 1..Len(displayed) : \A j \in 1..Len(displayed) :
            i < j => displayed[i].teamPoints >= displayed[j].teamPoints

\* C8 (as claimed): ties are ranked deterministically: the server keeps tied
\* teams in the pairs list's order, part_000 orders tied teams by teamName
\* ascending, and every client variant that displays results displays them in
\* non-increasing teamPoints order.
C8_TiesDeterministic ==
    /\ ServerTiesKeepPairsOrder
    /\ ClientTiesByTeamName
    /\ \A variant \in ClientVariants : DisplayedNonIncreasing(variant)

\* what part_000 keeps: ranked by teamPoints, ties by teamName
Part000Ranked == ClientTiesByTeamName /\ DisplayedNonIncreasing("part_000")

(***************************************************************************)
(* Properties of handleRequest's GET /api/gw/:gw (under SpecGw).           *)
(***************************************************************************)
\* the request is GET /api/gw/:gw with a segment that parses to no gameweek
\* of 1..38
RejectableGw(req) ==
    /\ req.route = "gw"
    /\ \/ parseInt(charsOf(req.key)).nan
       \/ parseInt(charsOf(req.key)).val \notin 1..38

\* C11: a step that leaves the server with a GET /api/gw request whose gw is
\* not in 1..38 (0, negative, above 38, not a number) leaves it answered with
\* status 400, no fetch begun and no cache modified; a GET /api/gw request
\* that is being computed or answered with results has a gw within 1..38.
C11_InvalidGwRejected ==
    [][ /\ RejectableGw(request') =>
            /\ response'.status = 400
            /\ pc' = "rejected"
            /\ UNCHANGED <<standingsCache, standingsCacheTimestamp, pairsCache,
                           captainsFile, page, acc, calledAt>>
            /\ allEntries' = NoEntries /\ responses' = <<>>
        /\ (request'.route = "gw" /\ pc' \in {"standings", "buildPairs", "loaded",
                                              "pool", "done"})
             => ~parseInt(charsOf(request'.key)).nan
                /\ parseInt(charsOf(request'.key)).val \in 1..38 ]_vars

\* a request for gameweek 39 was rejected while pairs were cached
C11_Witness ==
    /\ request.route = "gw"
    /\ request.key = "39"
    /\ response.status = 400
    /\ pc = "rejected"
    /\ ~pairsCache.isNull

\* a GET /api/gw or GET /api/pairs request arrives and getPairs is entered
PairsRequested == Quiet /\ pc' \in {"standings", "buildPairs", "loaded"}

\* the standings were fetched more than the time to live ago
StandingsExpired ==
    ~standingsCache.isNull /\ now - standingsCacheTimestamp > STANDINGS_CACHE_TTL

\* C18 (as claimed): a GET /api/gw or GET /api/pairs request that arrives
\* more than STANDINGS_CACHE_TTL after the standings were last fetched begins
\* a fresh standings fetch, and is not answered from pairs built before.
C18_ExpiredStandingsRefetched ==
    [][ (PairsRequested /\ StandingsExpired) =>
            /\ pc' = "standings"
            /\ calledAt' = now ]_vars

(***************************************************************************)
(* Properties of /api/captains/:gw (under SpecCaptainsApi).                *)
(***************************************************************************)
\* this step served a captains request; Served is its log entry
Serving == captainLog' # captainLog

Served == captainLog'[Len(captainLog')]

\* the mapping a body states: a JSON object's, {} for no data and for null
Stated(body) == IF body.kind = "object" THEN body.val ELSE NoCaptains

PostedOk(e) ==
    e.request.method = "POST" /\ e.response.status = 200 /\ e.response.error = ""

\* the mapping the document holds for a gameweek, {} when it holds none
Persisted(doc, key) == IF key \in DOMAIN doc THEN doc[key] ELSE NoCaptains

\* C12: a successful POST for a gameweek leaves exactly the posted mapping
\* persisted for it and every other gameweek's mapping as it was; a GET
\* returns the mapping persisted for its gameweek, the empty mapping for a
\* gameweek never written; so a GET that follows a successful POST for the
\* same gameweek returns exactly what was posted.
C12_CaptainsRoundTrip ==
    [][ Serving =>
          /\ PostedOk(Served) =>
               /\ Served.request.key \in DOMAIN captainsFile'
               /\ captainsFile'[Served.request.key] = Stated(Served.request.body)
               /\ \A k \in (DOMAIN captainsFile \cup DOMAIN captainsFile')
                           \ {Served.request.key} :
                     /\ k \in DOMAIN captainsFile /\ k \in DOMAIN captainsFile'
                     /\ captainsFile'[k] = captainsFile[k]
          /\ Served.request.method = "GET" =>
               /\ Served.response.status = 200
               /\ Served.response.json = Persisted(captainsFile, Served.request.key)
               /\ captainsFile' = captainsFile
               /\ (captainLog # <<>>
                   /\ PostedOk(captainLog[Len(captainLog)])
                   /\ captainLog[Len(captainLog)].request.key = Served.request.key)
                    => Served.response.json
                         = Stated(captainLog[Len(captainLog)].request.body) ]_vars

\* gameweek 1 was posted { Banter Bros: 2 } and then read back as that, with
\* gameweek 2 still holding its mapping
C12_Witness ==
    /\ Len(captainLog) = 2
    /\ PostedOk(captainLog[1])
    /\ captainLog[1].request.key = "1"
    /\ captainLog[1].request.body = [kind |-> "object", val |-> [t \in {"Banter Bros"} |-> 2]]
    /\ captainLog[2].request.method = "GET"
    /\ captainLog[2].request.key = "1"
    /\ captainLog[2].response.json = [t \in {"Banter Bros"} |-> 2]
    /\ "2" \in DOMAIN captainsFile
    /\ captainsFile["2"] = [t \in {"Dark Knights"} |-> 1]

\* C13 (as claimed): a PUT with a valid JSON body writes the gameweek's
\* mapping as a POST with that body does and is answered with the same
\* success response.
C13_PutWritesLikePost ==
    [][ (Serving /\ Served.request.method = "PUT"
                 /\ ~parseJsonBody(Served.request.body).threw) =>
          /\ Served.response = OkResponse
          /\ captainsFile' = saveCaptains(setByGw(loadCaptains(captainsFile),
                                                  Served.request.key,
                                                  orEmpty(parseJsonBody(Served.request.body).json)))
      ]_vars

\* C14: a POST whose body is not JSON is answered with status 400 and the
\* persisted document stays as it was, for every gameweek.
C14_MalformedBodyRejected ==
    [][ (Serving /\ Served.request.method = "POST"
                 /\ Served.request.body.kind = "malformed") =>
          /\ Served.response.status = 400
          /\ captainsFile' = captainsFile ]_vars

\* a malformed POST was rejected while the document held mappings
C14_Witness ==
    /\ captainLog # <<>>
    /\ captainLog[Len(captainLog)].request.method = "POST"
    /\ captainLog[Len(captainLog)].request.body.kind = "malformed"
    /\ captainLog[Len(captainLog)].response.status = 400
    /\ DOMAIN captainsFile = {"1", "2"}

\* C15 (as claimed): when saveCaptains throws during a POST, the response is
\* not the success response and is not the 'Invalid JSON body' client error.
C15_SaveFailureSurfaced ==
    \A i \in 1..Len(captainLog) :
        (captainLog[i].request.method = "POST" /\ captainLog[i].saveThrew) =>
            /\ captainLog[i].response # OkResponse
            /\ captainLog[i].response.error # "Invalid JSON body"

(***************************************************************************)
(* Properties of the points worker pool (under SpecPool).                  *)
(***************************************************************************)
\* what a settled fetch is worth: its points, 0 without numeric points or
\* when it failed
worth(o) == IF o.kind = "points" THEN o.pts ELSE 0

failed(o) == o.kind \in {"reject", "status"}

QueuedAt(e) == {i \in 1..Len(allEntries) : allEntries[i] = e}

\* C9: a failed fetch (rejected, or not ok) gives its entry 0 points and
\* touches nothing else: every entry gets what its own fetch returned, a
\* response without numeric points gives 0, a worker only finishes once the
\* queue is exhausted, and the request ends with the full result list.
C9_FailureIsolated ==
    /\ pc \in {"pool", "done"} =>
          /\ \A w \in Workers : worker[w].st = "done" => idx = Len(allEntries)
          /\ \A i \in 1..Len(allEntries) :
                (responses[i] # Pending /\ Cardinality(QueuedAt(allEntries[i])) = 1)
                    => /\ allEntries[i] \in DOMAIN entryPoints
                       /\ entryPoints[allEntries[i]] = worth(responses[i])
    /\ Responded =>
          /\ \A i \in 1..Len(allEntries) : responses[i] # Pending
          /\ Len(results) = Len(pairs)
          /\ \A i \in ScoredAt : \A k \in 1..2 :
                \E j \in QueuedAt(results[i].members[k].entryId) :
                    results[i].members[k].points = worth(responses[j])

\* a first-wave fetch failed, its worker went on to a later queue position
\* whose fetch returned points, and the team of the failed entry is scored
C9_Witness ==
    /\ Responded
    /\ Len(allEntries) > concurrency
    /\ failed(responses[1])
    /\ \E i \in (concurrency + 1)..Len(allEntries) : responses[i].kind = "points"
    /\ \E i \in ScoredAt :
          /\ results[i].members[1].entryId = allEntries[1]
          /\ results[i].members[1].points = 0
          /\ results[i].members[2].points > 0

\* the workers awaiting a fetch, and the queue positions (1-based) they hold
Fetching == {w \in Workers : worker[w].st = "fetching"}

Held == {worker[w].current + 1 : w \in Fetching}

Settled == {i \in 1..Len(allEntries) : responses[i] # Pending}

\* every position taken so far is held by exactly one worker or settled
TakenOnce ==
    /\ idx <= Len(allEntries)
    /\ \A v \in Fetching : \A w \in Fetching :
          worker[v].current = worker[w].current => v = w
    /\ Held \cup Settled = 1..idx
    /\ Held \cap Settled = {}

\* C16: in one computeScoresForGw call, under every interleaving of the
\* workers, each queue position taken is held by one worker or settled, none
\* being skipped or taken twice; a settled position is never fetched again;
\* and when the pool completes every position is settled and the result map
\* holds a value for every queued entry id.
C16_EveryIndexOnce ==
    [][ pc' \in {"pool", "done"} =>
          /\ TakenOnce'
          /\ pc = "pool" =>
                /\ \A i \in Settled : responses'[i] = responses[i]
                /\ \A w \in Fetching :
                      \/ worker'[w] = worker[w]
                      \/ worker[w].current + 1 \in Settled'
                /\ idx' \in {idx, idx + 1}
          /\ pc' = "done" =>
                /\ Settled' = 1..Len(allEntries')
                /\ \A i \in 1..Len(allEntries') : allEntries'[i] \in DOMAIN entryPoints' ]_vars

\* twelve entries went through the ten workers and the request was answered
C16_Witness ==
    /\ Responded
    /\ Len(allEntries) = 2 * Len(ABBREVIATIONS)
    /\ Len(allEntries) > concurrency
    /\ Settled = 1..Len(allEntries)
    /\ DOMAIN entryPoints = {allEntries[i] : i \in 1..Len(allEntries)}

\* C17: in one computeScoresForGw call no more than concurrency (10) points
\* fetches are in flight at once, however many entries are queued; with fewer
\* entries than workers the surplus workers are finished from the start and
\* never fetch.
C17_AtMostTenInFlight ==
    [][ pc' \in {"pool", "done"} =>
          /\ Cardinality(Fetching') <= concurrency
          /\ Cardinality(Held') <= concurrency
          /\ Cardinality((1..idx') \ Settled') <= concurrency
          /\ \A w \in Workers :
                w > Len(allEntries') => worker'[w].st = "done" ]_vars

\* ten fetches in flight with two entries still queued
C17_Witness ==
    /\ pc = "pool"
    /\ Len(allEntries) = concurrency + 2
    /\ Cardinality(Fetching) = concurrency
    /\ idx = concurrency

\* two entries queued: eight workers finished without a fetch
SurplusWorkersDone ==
    /\ pc = "pool"
    /\ Len(allEntries) = 2
    /\ Cardinality(Fetching) = 2
    /\ \A w \in Workers : w > 2 => worker[w].st = "done"

(***************************************************************************)
(* The client's resolver, read off the rendered table: a team that is      *)
(* shown carries both entry ids, a team that is not shown names the        *)
(* members whose resolution returned null.                                 *)
(***************************************************************************)
directoryRows ==
    {i \in 1..Len(leagueRows) : leagueRows[i].player_name # <<>> /\ leagueRows[i].entry # 0}

directoryKeys == {leagueRows[i].player_name : i \in directoryRows}

\* the value the directory holds for a key: the one set last
entryOf(k) ==
    leagueRows[CHOOSE i \in directoryRows :
                  /\ leagueRows[i].player_name = k
                  /\ \A j \in directoryRows : leagueRows[j].player_name = k => j <= i].entry

teamOverrideApplies(teamName, target) ==
    \E o \in TEAM_SPECIFIC_OVERRIDES :
        o.teamName = teamName /\ o.short = target /\ o.exact \in directoryKeys

overrideApplies(target) ==
    \E o \in NAME_OVERRIDES : o.short = target /\ o.exact \in directoryKeys

rosterNames == {TEAMS[t].members[i] : t \in 1..Len(TEAMS), i \in 1..2}

catalogNames == {LeagueCatalog[i].player_name : i \in 1..Len(LeagueCatalog)}

\* norm and similar of every key against every roster name, computed once
normEqual == [k \in catalogNames, m \in rosterNames |-> norm(k) = norm(m)]

isSimilar == [k \in catalogNames, m \in rosterNames |-> similar(k, m)]

normalizedMatches(target) == {k \in directoryKeys : normEqual[k, target]}

substringMatches(target) == {k \in directoryKeys : isSimilar[k, target]}

\* the entry ids the priority order allows for a roster name
allowedIds(teamName, target) ==
    IF teamOverrideApplies(teamName, target)
    THEN {entryOf(o.exact) : o \in {q \in TEAM_SPECIFIC_OVERRIDES :
                                       q.teamName = teamName /\ q.short = target}}
    ELSE IF overrideApplies(target)
    THEN {entryOf(o.exact) : o \in {q \in NAME_OVERRIDES : q.short = target}}
    ELSE IF target \in directoryKeys THEN {entryOf(target)}
    ELSE IF normalizedMatches(target) # {}
    THEN {entryOf(k) : k \in normalizedMatches(target)}
    ELSE IF substringMatches(target) # {}
    THEN {entryOf(k) : k \in substringMatches(target)}
    ELSE {0}

isShown(t) == \E r \in 1..Len(displayed) : displayed[r].teamName = TEAMS[t].teamName

shownRow(t) ==
    displayed[CHOOSE r \in 1..Len(displayed) : displayed[r].teamName = TEAMS[t].teamName]

flaggedMissing(t, i) ==
    \E u \in 1..Len(unresolved) :
        unresolved[u].teamName = TEAMS[t].teamName /\ i \in unresolved[u].missing

\* C19: in part_000 a roster name resolves by strict priority: the team's
\* override, then the global override, then an exact directory key, then a
\* normalized match, then a substring match, and null only when none of them
\* applies; an override whose target is in the directory wins over every
\* automatic match and one whose target is absent falls through.
C19_ResolvedByPriority ==
    shown = "part_000" =>
        \A t \in 1..Len(TEAMS), i \in 1..2 :
            IF isShown(t)
            THEN shownRow(t).members[i].entryId
                    \in allowedIds(TEAMS[t].teamName, TEAMS[t].members[i])
            ELSE flaggedMissing(t, i)
                    <=> allowedIds(TEAMS[t].teamName, TEAMS[t].members[i]) = {0}

\* the directory holds "Aditya" and "A S" (the team's override beats an exact
\* key), "Aniket Sainani" (global override), "A" before "prashant" (the
\* normalized match beats an earlier substring match) and lacks "Aditya
\* Halwe" and "Kapil Chaudhary" (those overrides fall through to "A")
C19_Witness ==
    /\ shown = "part_000"
    /\ {leagueRows[i].entry : i \in 1..Len(leagueRows)} = {2, 3, 4, 7, 8, 9}
    /\ \A t \in 1..Len(TEAMS) : isShown(t)
    /\ <<shownRow(1).members[1].entryId, shownRow(1).members[2].entryId>> = <<7, 2>>
    /\ <<shownRow(2).members[1].entryId, shownRow(2).members[2].entryId>> = <<3, 4>>
    /\ <<shownRow(3).members[1].entryId, shownRow(3).members[2].entryId>> = <<7, 9>>

\* no override applies, no key is the name itself, and two or more keys
\* match it by normalized or substring comparison
ambiguous(variant, teamName, target) ==
    /\ variant = "part_001"
          \/ (~teamOverrideApplies(teamName, target) /\ ~overrideApplies(target))
    /\ target \notin directoryKeys
    /\ Cardinality(substringMatches(target)) >= 2

\* C20: a roster name with no override and no exact match that two or more
\* directory entries match by normalized or substring comparison resolves
\* to null, and its team is flagged as unresolved.
C20_AmbiguousIsNull ==
    shown # "none" =>
        \A t \in 1..Len(TEAMS), i \in 1..2 :
            ambiguous(shown, TEAMS[t].teamName, TEAMS[t].members[i])
                => flaggedMissing(t, i)

(***************************************************************************)
(* The captain of a row loadResults pushed (under SpecClient).             *)
(***************************************************************************)
autoTied(r) == r.autoLowest /\ r.members[1].points = r.members[2].points

\* C21: in both clients, when the two members have equal points and no
\* captain is stored, the captain chosen is the member with the smaller
\* identifier (entry id), whichever of the two the roster lists first.
C21_TieBreaksOnIdentifier ==
    shown # "none" =>
        \A r \in 1..Len(displayed) :
            autoTied(displayed[r]) =>
                /\ displayed[r].captainEntryId <= displayed[r].members[1].entryId
                /\ displayed[r].captainEntryId <= displayed[r].members[2].entryId

captainIsMember(r) ==
    r.captainEntryId \in {r.members[1].entryId, r.members[2].entryId}

\* C22: in both clients, whatever captain value is stored (in captains.json
\* or in localStorage, an id of neither member included), the captain a row
\* reports is one of the team's two members and the team's points are the
\* two members' points plus the points of that member.
C22_CaptainIsMember ==
    shown # "none" =>
        \A r \in 1..Len(displayed) :
            /\ captainIsMember(displayed[r])
            /\ \E m \in 1..2 :
                  /\ displayed[r].members[m].entryId = displayed[r].captainEntryId
                  /\ displayed[r].teamPoints =
                        displayed[r].members[1].points + displayed[r].members[2].points
                        + displayed[r].members[m].points

(***************************************************************************)
(* The captain editor (under SpecEditor).                                  *)
(***************************************************************************)
rowOf(teamName) ==
    displayed[CHOOSE r \in 1..Len(displayed) : displayed[r].teamName = teamName]

\* C23: after the user selects member c as captain of team T and submits,
\* the refreshed results report captainEntryId = c with autoLowest false for
\* T; in part_000 also when captains.json holds another captain for T.
C23_SavedCaptainShown ==
    shown # "none" =>
        \A t \in DOMAIN chosen :
            /\ \E r \in 1..Len(displayed) : displayed[r].teamName = t
            /\ rowOf(t).captainEntryId = chosen[t]
            /\ ~rowOf(t).autoLowest

(***************************************************************************)
(* Two POST /api/captains requests in flight (under SpecPosts).            *)
(***************************************************************************)
bothPosted ==
    /\ \A h \in Handlers : posts[h].st = "sent" /\ posts[h].ok
    /\ posts[1].key # posts[2].key

\* C24: when two POST /api/captains requests for different gameweeks have
\* both been answered {status: 'ok'}, the persisted document holds the
\* mapping posted for each of the two gameweeks, however their steps were
\* interleaved.
C24_NoLostUpdate ==
    bothPosted =>
        \A h \in Handlers :
            /\ posts[h].key \in DOMAIN loadCaptains(captainsFile)
            /\ loadCaptains(captainsFile)[posts[h].key]
                   = orEmpty(parseJsonBody(posts[h].body).json)

(***************************************************************************)
(* The gameweek a GET /api/gw request is scored for (under SpecGw).        *)
(***************************************************************************)
\* the decimal numeral of a natural number, as the response's gw field and
\* a property key made from it read
RECURSIVE decimal(_)
decimal(n) ==
    IF n < 10 THEN <<Digits[n + 1]>>
    ELSE Append(decimal(n \div 10), Digits[(n % 10) + 1])

Scoring == request.route = "gw" /\ pc \in {"pool", "done"}

\* C26: for a GET /api/gw/{raw} request that passed validation, the
\* gameweek with which points are fetched and stored captains are looked up
\* is the validated integer that the response reports as gw.
C26_ValidatedGwUsed ==
    Scoring => charsOf(gw) = decimal(parseInt(charsOf(request.key)).val)

(***************************************************************************)
(* The two caches under concurrent getPairs calls (under SpecRace).        *)
(***************************************************************************)
\* C25: whenever pairsCache is non-null it was built from the standings
\* list that standingsCache holds, however concurrent getPairs and
\* getStandings calls that started on empty caches were interleaved.
C25_PairsFromCachedStandings ==
    ~pairsCache.isNull =>
        /\ ~standingsCache.isNull
        /\ pairsCache.val = buildPairs(standingsCache.val)

\* two calls that both fetched, with lists that give different pairs, have
\* both returned
C25_Witness ==
    /\ \A c \in Handlers : calls[c].st = "returned" /\ calls[c].standings # <<>>
    /\ buildPairs(calls[1].standings) # buildPairs(calls[2].standings)
    /\ ~pairsCache.isNull

(***************************************************************************)
(* Termination of GET /api/gw (under SpecLive).                            *)
(***************************************************************************)
GwPending == request.route = "gw" /\ pc \in {"standings", "buildPairs", "loaded", "pool"}

GwAnswered == response.status # 0

\* C27: every valid GET /api/gw request is answered in the end, given that
\* every upstream fetch resolves or rejects: the standings loop stops after
\* finitely many pages whatever has_next the upstream sends, and the workers
\* of the points pool all finish.
C27_GwEventuallyAnswered == GwPending ~> GwAnswered

====
